---------------------------- MODULE Spec2Model ----------------------------
(***************************************************************************)
(* CloudCostCalaCLI: billing CSV parsing, instance-hour normalization,     *)
(* enrichment, synthetic-unit conversion and the main pipeline.            *)
(*                                                                         *)
(* Go strings on which the code works character by character (service      *)
(* names, periods, numeric fields) are sequences of one-character strings. *)
(* Strings the code only compares as a whole (resource types, project      *)
(* tags) are TLA+ strings.                                                 *)
(*                                                                         *)
(* A float64 is written in one of two ways.  As a record [n, d] it is the  *)
(* rational n/d in lowest terms when d > 0, +Inf = 1/0, -Inf = -1/0,       *)
(* NaN = 0/0, and arithmetic on finite values is exact.  As a record       *)
(* [m, e] it is the binary64 value m * 2^e bit for bit, and sums and       *)
(* quotients are rounded as IEEE 754 rounds them; the additivity harness   *)
(* compares such values to the last bit.                                   *)
(***************************************************************************)
EXTENDS Integers, Sequences, FiniteSets, TLC

VARIABLES
    pc,                 \* position of main, or of the function harness
    configFile,         \* file system: the file named by --config
    billingFiles,       \* file system: the billing file of each provider
    cfg,                \* main: cfg
    allAssets,          \* main: allAssets
    allBillingRecords,  \* main: allBillingRecords
    billingPeriod,      \* main: billingPeriod
    avgInstancesByType, \* main: avgInstancesByType
    enrichedAssets,     \* main: enrichedAssets
    aggregated,         \* main: aggregated
    stdout,             \* what main has printed, as a sequence of events
    stderr,             \* what the log package has written, as events
    excelFile,          \* the spreadsheet on disk
    exitCode,           \* -1 while running, 0 on return, 1 after log.Fatal
    call,               \* harness: the function applied and its arguments
    ret                 \* harness: what the function returned

vars == <<pc, configFile, billingFiles, cfg, allAssets,
          allBillingRecords, billingPeriod, avgInstancesByType,
          enrichedAssets, aggregated, stdout, stderr, excelFile, exitCode,
          call, ret>>

mainVars == <<configFile, billingFiles, cfg, allAssets,
              allBillingRecords, billingPeriod, avgInstancesByType,
              enrichedAssets, aggregated, stdout, stderr, excelFile, exitCode>>

---------------------------------------------------------------------------
(* Bounds of the model. *)

\* longest list of billing records handed to the normalizer harness
MaxRecords == 3
\* most data rows of a billing file in the parser harness
MaxRows == 2
\* longest inventory handed to the enrichment harness
MaxAssets == 2
\* averages k/4 with |k| <= MaxQuarters are handed to the converter harness
MaxQuarters == 10
\* longest list of report rows handed to the output harness
MaxReportRows == 3

---------------------------------------------------------------------------
(* Characters and strings. *)

UpperChars == <<"A","B","C","D","E","F","G","H","I","J","K","L","M",
                "N","O","P","Q","R","S","T","U","V","W","X","Y","Z">>
LowerChars == <<"a","b","c","d","e","f","g","h","i","j","k","l","m",
                "n","o","p","q","r","s","t","u","v","w","x","y","z">>
DigitChars == <<"0","1","2","3","4","5","6","7","8","9">>

IsUpper(c) == \E i \in 1..26 : UpperChars[i] = c
IsDigit(c) == \E i \in 1..10 : DigitChars[i] = c
DigitVal(c) == (CHOOSE i \in 1..10 : DigitChars[i] = c) - 1

\* strings.ToLower on one ASCII character
LowerChar(c) ==
    IF IsUpper(c) THEN LowerChars[CHOOSE i \in 1..26 : UpperChars[i] = c] ELSE c

\* strings.ToLower
ToLower(s) == [i \in 1..Len(s) |-> LowerChar(s[i])]

\* strings.Contains
Contains(s, substr) ==
    \E i \in 0..(Len(s) - Len(substr)) : SubSeq(s, i + 1, i + Len(substr)) = substr

---------------------------------------------------------------------------
(* float64 values. *)

Abs(x) == IF x < 0 THEN -x ELSE x
Sign(x) == IF x < 0 THEN -1 ELSE IF x > 0 THEN 1 ELSE 0

RECURSIVE GCD(_, _)
GCD(a, b) == IF b = 0 THEN a ELSE GCD(b, a % b)

\* the float n/d (d > 0), in lowest terms
Rat(n, d) ==
    LET g == GCD(Abs(n), d)
    IN  [n |-> Sign(n) * (Abs(n) \div g), d |-> d \div g]

FInt(i) == [n |-> i, d |-> 1]
PosInf == [n |-> 1, d |-> 0]
NegInf == [n |-> -1, d |-> 0]
NaN == [n |-> 0, d |-> 0]
IsFinite(x) == x.d > 0
IsNaN(x) == x.d = 0 /\ x.n = 0

---------------------------------------------------------------------------
(* float64 values bit for bit (IEEE 754 binary64, round to nearest, ties   *)
(* to even), for the sums and quotients of NormalizeToInstanceHours whose  *)
(* last bits matter.  A value is 0 or m * 2^e with 2^52 <= m < 2^53; m is  *)
(* a natural number written in limbs of LimbBits bits, lowest first.  Only *)
(* non-negative values in the normal range are written this way.           *)

RECURSIVE Pow2(_)
Pow2(k) == IF k <= 0 THEN 1 ELSE 2 * Pow2(k - 1)

\* the bits of a float64's significand
MantissaBits == 53

\* limbs whose products stay below 2^31, the integers TLC computes with
LimbBits == (32 - 2) \div 2
LimbBase == Pow2(LimbBits)

RECURSIVE BitLen(_)
\* the number of bits of n >= 0
BitLen(n) == IF n = 0 THEN 0 ELSE 1 + BitLen(n \div 2)

RECURSIVE Strip(_)
\* without the zero limbs at the top
Strip(a) ==
    IF a = <<>> THEN a
    ELSE IF a[Len(a)] = 0 THEN Strip(SubSeq(a, 1, Len(a) - 1))
    ELSE a

RECURSIVE BigOfInt(_)
BigOfInt(n) ==
    IF n = 0 THEN <<>> ELSE <<n % LimbBase>> \o BigOfInt(n \div LimbBase)

Limb(a, i) == IF i <= Len(a) THEN a[i] ELSE 0

RECURSIVE BigAddFrom(_, _, _, _)
BigAddFrom(a, b, i, carry) ==
    IF i > Len(a) /\ i > Len(b)
    THEN (IF carry = 0 THEN <<>> ELSE <<carry>>)
    ELSE LET v == Limb(a, i) + Limb(b, i) + carry
         IN  <<v % LimbBase>> \o BigAddFrom(a, b, i + 1, v \div LimbBase)

BigAdd(a, b) == BigAddFrom(a, b, 1, 0)

RECURSIVE BigMulFrom(_, _, _, _)
BigMulFrom(a, k, i, carry) ==
    IF i > Len(a)
    THEN (IF carry = 0 THEN <<>> ELSE <<carry>>)
    ELSE LET v == a[i] * k + carry
         IN  <<v % LimbBase>> \o BigMulFrom(a, k, i + 1, v \div LimbBase)

\* a * k for 0 < k < LimbBase
BigMulSmall(a, k) == BigMulFrom(a, k, 1, 0)

\* a * 2^s
BigShl(a, s) ==
    IF a = <<>> THEN a
    ELSE [i \in 1..(s \div LimbBits) |-> 0] \o BigMulSmall(a, Pow2(s % LimbBits))

RECURSIVE BigDivFrom(_, _, _, _)
\* long division from limb i down: the quotient's limbs, highest first,
\* and the remainder
BigDivFrom(a, d, i, rem) ==
    IF i = 0 THEN [q |-> <<>>, r |-> rem]
    ELSE LET v    == rem * LimbBase + a[i]
             rest == BigDivFrom(a, d, i - 1, v % d)
         IN  [q |-> <<v \div d>> \o rest.q, r |-> rest.r]

Reverse(a) == [i \in 1..Len(a) |-> a[Len(a) + 1 - i]]

\* a divided by d, 0 < d < LimbBase: quotient q and remainder r
BigDivSmall(a, d) ==
    LET res == BigDivFrom(a, d, Len(a), 0)
    IN  [q |-> Strip(Reverse(res.q)), r |-> res.r]

\* a \div 2^s
BigShr(a, s) ==
    LET k == s \div LimbBits
    IN  IF k >= Len(a) THEN <<>>
        ELSE BigDivSmall(SubSeq(a, k + 1, Len(a)), Pow2(s % LimbBits)).q

BigBitLen(a) ==
    IF a = <<>> THEN 0 ELSE LimbBits * (Len(a) - 1) + BitLen(a[Len(a)])

\* bit i of a, bit 0 the lowest
BigBit(a, i) == (Limb(a, i \div LimbBits + 1) \div Pow2(i % LimbBits)) % 2

\* some bit of a below bit i is 1
BigLowBits(a, i) ==
    \/ \E j \in 1..(i \div LimbBits) : Limb(a, j) # 0
    \/ Limb(a, i \div LimbBits + 1) % Pow2(i % LimbBits) # 0

Zero64 == [m |-> <<>>, e |-> 0]
IsBinary64(x) == "m" \in DOMAIN x

\* the float64 nearest to (m / d) * 2^e, ties to even, for a natural m in
\* limbs and 0 < d < LimbBase
RoundQuotient(m, d, e) ==
    IF m = <<>> THEN Zero64
    ELSE LET len  == BigBitLen(m)
             s    == IF len >= 70 THEN 0 ELSE 70 - len
             qr   == BigDivSmall(BigShl(m, s), d)
             drop == BigBitLen(qr.q) - MantissaBits
             top  == BigShr(qr.q, drop)
             up   == /\ BigBit(qr.q, drop - 1) = 1
                     /\ \/ BigLowBits(qr.q, drop - 1)
                        \/ qr.r # 0
                        \/ BigBit(top, 0) = 1
             m1   == IF up THEN BigAdd(top, <<1>>) ELSE top
         IN  IF BigBitLen(m1) > MantissaBits
             THEN [m |-> BigShr(m1, 1), e |-> e - s + drop + 1]
             ELSE [m |-> m1, e |-> e - s + drop]

\* the float64 nearest to n / d, as ParseFloat gives for a decimal numeral
\* of that value
Float64(n, d) == RoundQuotient(BigOfInt(n), d, 0)

\* the exact sum of two values m * 2^e, not rounded
ExactAdd(x, y) ==
    IF x.m = <<>> THEN y
    ELSE IF y.m = <<>> THEN x
    ELSE IF x.e >= y.e
         THEN [m |-> BigAdd(BigShl(x.m, x.e - y.e), y.m), e |-> y.e]
         ELSE [m |-> BigAdd(x.m, BigShl(y.m, y.e - x.e)), e |-> x.e]

\* x + y in float64
Add64(x, y) ==
    LET sum == ExactAdd(x, y) IN RoundQuotient(sum.m, 1, sum.e)

\* x / float64(h) in float64, for a whole h with 0 < h < LimbBase
Div64(x, h) == RoundQuotient(x.m, h, x.e)

\* x is a whole number
IsWhole64(x) == x.e >= 0 \/ ~BigLowBits(x.m, -x.e)

\* a non-negative finite value, bit for bit
ToBinary64(x) == IF IsBinary64(x) THEN x ELSE Float64(x.n, x.d)

---------------------------------------------------------------------------
(* float64 operations of the program.  Values written bit for bit are      *)
(* added and divided as the hardware does; values written as ratios n/d    *)
(* are added and divided exactly.                                          *)

\* x + y
FAdd(x, y) ==
    IF IsBinary64(x) \/ IsBinary64(y) THEN Add64(ToBinary64(x), ToBinary64(y))
    ELSE IF IsFinite(x) /\ IsFinite(y) THEN Rat(x.n * y.d + y.n * x.d, x.d * y.d)
    ELSE IF IsNaN(x) \/ IsNaN(y) THEN NaN
    ELSE IF ~IsFinite(x) /\ ~IsFinite(y) THEN (IF x.n = y.n THEN x ELSE NaN)
    ELSE IF ~IsFinite(x) THEN x
    ELSE y

\* x / h for a finite h > 0
FDiv(x, h) ==
    IF IsBinary64(x) THEN Div64(x, h.n)
    ELSE IF IsFinite(x) THEN Rat(x.n * h.d, x.d * h.n) ELSE x

\* x * float64(u) for an int u
FMulInt(x, u) ==
    IF IsFinite(x) THEN Rat(x.n * u, x.d)
    ELSE IF IsNaN(x) \/ u = 0 THEN NaN
    ELSE [n |-> x.n * Sign(u), d |-> 0]

\* x > 0 (false for NaN)
FGtZero(x) == x.n > 0

\* int(x) without math.Round: the fraction is cut off
RoundToInt_Truncates(x) == Sign(x.n) * (Abs(x.n) \div x.d)

\* int(math.Round(x)) for a finite x: to the nearest integer, halves away
\* from zero
RoundToInt(x) == Sign(x.n) * ((2 * Abs(x.n) + x.d) \div (2 * x.d))

---------------------------------------------------------------------------
(* strconv.ParseFloat(s, 64) on the decimal spellings:                     *)
(*   [sign] digits [ "." digits ] [ ("e"|"E") [sign] digits ]              *)
(* with at least one mantissa digit.  Anything else is a syntax error and  *)
(* yields 0; a well-formed number beyond the float64 range is a range      *)
(* error and yields +Inf or -Inf.  The caller in parser.go drops the error *)
(* and keeps the value.  Hexadecimal, "inf" and "nan" spellings are not    *)
(* drawn as inputs, nor are numbers in the decade of the largest float64.  *)

\* the decimal exponent above which every nonzero number is out of range
\* (math.MaxFloat64 is about 1.8e308)
MaxFloat64Exp10 == 309

RECURSIVE ToNat(_)
ToNat(t) == IF t = <<>> THEN 0 ELSE ToNat(SubSeq(t, 1, Len(t) - 1)) * 10 + DigitVal(t[Len(t)])

RECURSIVE Pow10(_)
Pow10(k) == IF k <= 0 THEN 1 ELSE 10 * Pow10(k - 1)

RECURSIVE NumDigits(_)
NumDigits(m) == IF m < 10 THEN 1 ELSE 1 + NumDigits(m \div 10)

AllDigits(t) == \A i \in 1..Len(t) : IsDigit(t[i])

\* the first index of t holding a character of cs, 0 when there is none
IndexAny(t, cs) ==
    IF \E i \in 1..Len(t) : t[i] \in cs
    THEN CHOOSE i \in 1..Len(t) : t[i] \in cs /\ \A j \in 1..(i - 1) : t[j] \notin cs
    ELSE 0

HasSign(t) == Len(t) > 0 /\ t[1] \in {"+", "-"}
Unsigned(t) == IF HasSign(t) THEN SubSeq(t, 2, Len(t)) ELSE t
SignOf(t) == IF Len(t) > 0 /\ t[1] = "-" THEN -1 ELSE 1

ParseFloat(s) ==
    LET body == Unsigned(s)
        e    == IndexAny(body, {"e", "E"})
        mant == IF e = 0 THEN body ELSE SubSeq(body, 1, e - 1)
        expo == IF e = 0 THEN <<>> ELSE SubSeq(body, e + 1, Len(body))
        dot  == IndexAny(mant, {"."})
        ip   == IF dot = 0 THEN mant ELSE SubSeq(mant, 1, dot - 1)
        fp   == IF dot = 0 THEN <<>> ELSE SubSeq(mant, dot + 1, Len(mant))
        ed   == Unsigned(expo)
        wellFormed ==
            /\ AllDigits(ip) /\ AllDigits(fp) /\ Len(ip) + Len(fp) > 0
            /\ (e # 0 => (Len(ed) > 0 /\ AllDigits(ed)))
        m    == ToNat(ip \o fp)
        x    == SignOf(expo) * ToNat(ed) - Len(fp)
    IN  IF ~wellFormed THEN [f |-> FInt(0), err |-> "syntax"]
        ELSE IF m = 0 THEN [f |-> FInt(0), err |-> "nil"]
        ELSE IF NumDigits(m) + x > MaxFloat64Exp10
             THEN [f |-> [n |-> SignOf(s), d |-> 0], err |-> "range"]
        ELSE [f |-> Rat(SignOf(s) * m * Pow10(x), Pow10(-x)), err |-> "nil"]

---------------------------------------------------------------------------
(* internal/billing/normalizer.go *)

Month31 == { <<"0","1">>, <<"0","3">>, <<"0","5">>, <<"0","7">>,
             <<"0","8">>, <<"1","0">>, <<"1","2">> }
Month30 == { <<"0","4">>, <<"0","6">>, <<"0","9">>, <<"1","1">> }

\* a calendar with leap years: February of a year divisible by 4 has 29 days
getDaysInPeriod_LeapYear(period) ==
    IF Len(period) < 7 THEN 30
    ELSE LET month == SubSeq(period, 6, 7)
         IN  IF month \in Month31 THEN 31
             ELSE IF month \in Month30 THEN 30
             ELSE IF month = <<"0","2">>
                  THEN IF (10 * DigitVal(period[3]) + DigitVal(period[4])) % 4 = 0
                       THEN 29 ELSE 28
             ELSE 30

\* a short period taken for a 31-day month
getDaysInPeriod_ShortIs31(period) ==
    IF Len(period) < 7 THEN 31
    ELSE LET month == SubSeq(period, 6, 7)
         IN  IF month \in Month31 THEN 31
             ELSE IF month \in Month30 THEN 30
             ELSE IF month = <<"0","2">> THEN 28
             ELSE 30

\* the default case of the switch returns 31
getDaysInPeriod_UnknownIs31(period) ==
    IF Len(period) < 7 THEN 30
    ELSE LET month == SubSeq(period, 6, 7)
         IN  IF month \in Month31 THEN 31
             ELSE IF month \in Month30 THEN 30
             ELSE IF month = <<"0","2">> THEN 28
             ELSE 31

getDaysInPeriod(period) ==
    IF Len(period) < 7 THEN 30
    ELSE LET month == SubSeq(period, 6, 7)
         IN  IF month \in Month31 THEN 31
             ELSE IF month \in Month30 THEN 30
             ELSE IF month = <<"0","2">> THEN 28
             ELSE 30

\* Go maps: functions with a finite domain; a missing key reads as zero
EmptyMap == [k \in {} |-> 0]
MapPut(m, k, v) == [x \in (DOMAIN m) \cup {k} |-> IF x = k THEN v ELSE m[x]]
MapGet(m, k, zero) == IF k \in DOMAIN m THEN m[k] ELSE zero

RECURSIVE SumByType(_, _, _)
\* the loop written with "=" for "+="
SumByType_KeepsLast(records, i, normalized) ==
    IF i > Len(records) THEN normalized
    ELSE SumByType(records, i + 1,
            MapPut(normalized, records[i].ResourceType, records[i].InstanceHours))

\* the first loop of NormalizeToInstanceHours, from record i on:
\* normalized[record.ResourceType] += record.InstanceHours
SumByType(records, i, normalized) ==
    IF i > Len(records) THEN normalized
    ELSE SumByType(records, i + 1,
            MapPut(normalized, records[i].ResourceType,
                   FAdd(MapGet(normalized, records[i].ResourceType, FInt(0)),
                        records[i].InstanceHours)))

RECURSIVE DivideEach(_, _)
DivideEach(records, hoursInPeriod) ==
    IF records = <<>> THEN <<>>
    ELSE << [records[1] EXCEPT !.InstanceHours = FDiv(@, hoursInPeriod)] >>
             \o DivideEach(Tail(records), hoursInPeriod)

\* each record's hours divided before they are summed
NormalizeToInstanceHours_DividesEach(records, period) ==
    SumByType(DivideEach(records, FInt(getDaysInPeriod(period) * 24)), 1, EmptyMap)

NormalizeToInstanceHours(records, period) ==
    LET daysInPeriod  == getDaysInPeriod(period)
        hoursInPeriod == FInt(daysInPeriod * 24)
        summed        == SumByType(records, 1, EmptyMap)
    IN  [resourceType \in DOMAIN summed |-> FDiv(summed[resourceType], hoursInPeriod)]

AggregateByType(records, period) == NormalizeToInstanceHours(records, period)

\* the default period "2024-01"
DefaultPeriod == <<"2","0","2","4","-","0","1">>

\* the period of the last record for that of the first
GetBillingPeriod_Last(records) ==
    IF Len(records) > 0 THEN records[Len(records)].TimePeriod ELSE DefaultPeriod

GetBillingPeriod(records) ==
    IF Len(records) > 0 THEN records[1].TimePeriod ELSE DefaultPeriod

---------------------------------------------------------------------------
(* internal/billing/parser.go: the service type mappers *)

kw_ec2 == <<"e","c","2">>
kw_rds == <<"r","d","s">>
kw_lambda == <<"l","a","m","b","d","a">>
kw_ecs == <<"e","c","s">>
kw_s3 == <<"s","3">>
kw_virtual_machine == <<"v","i","r","t","u","a","l"," ","m","a","c","h","i","n","e">>
kw_vm == <<"v","m">>
kw_sql == <<"s","q","l">>
kw_function == <<"f","u","n","c","t","i","o","n">>
kw_container == <<"c","o","n","t","a","i","n","e","r">>
kw_storage == <<"s","t","o","r","a","g","e">>
kw_compute_engine == <<"c","o","m","p","u","t","e"," ","e","n","g","i","n","e">>
kw_cloud_sql == <<"c","l","o","u","d"," ","s","q","l">>
kw_cloud_functions == <<"c","l","o","u","d"," ","f","u","n","c","t","i","o","n","s">>
kw_gke == <<"g","k","e">>
kw_cloud_storage == <<"c","l","o","u","d"," ","s","t","o","r","a","g","e">>

\* the mapping without its strings.ToLower
mapAWSServiceToType_CaseSensitive(service0) ==
    LET service == service0
    IN  IF Contains(service, kw_ec2) THEN "VM"
        ELSE IF Contains(service, kw_rds) THEN "Database"
        ELSE IF Contains(service, kw_lambda) THEN "Function"
        ELSE IF Contains(service, kw_ecs) THEN "Container"
        ELSE IF Contains(service, kw_s3) THEN "Storage"
        ELSE "Other"

\* "rds" looked for before "ec2"
mapAWSServiceToType_DatabaseFirst(service0) ==
    LET service == ToLower(service0)
    IN  IF Contains(service, kw_rds) THEN "Database"
        ELSE IF Contains(service, kw_ec2) THEN "VM"
        ELSE IF Contains(service, kw_lambda) THEN "Function"
        ELSE IF Contains(service, kw_ecs) THEN "Container"
        ELSE IF Contains(service, kw_s3) THEN "Storage"
        ELSE "Other"

mapAWSServiceToType(service0) ==
    LET service == ToLower(service0)
    IN  IF Contains(service, kw_ec2) THEN "VM"
        ELSE IF Contains(service, kw_rds) THEN "Database"
        ELSE IF Contains(service, kw_lambda) THEN "Function"
        ELSE IF Contains(service, kw_ecs) THEN "Container"
        ELSE IF Contains(service, kw_s3) THEN "Storage"
        ELSE "Other"

mapAzureServiceToType(service0) ==
    LET service == ToLower(service0)
    IN  IF Contains(service, kw_virtual_machine) \/ Contains(service, kw_vm) THEN "VM"
        ELSE IF Contains(service, kw_sql) THEN "Database"
        ELSE IF Contains(service, kw_function) THEN "Function"
        ELSE IF Contains(service, kw_container) THEN "Container"
        ELSE IF Contains(service, kw_storage) THEN "Storage"
        ELSE "Other"

mapGCPServiceToType(service0) ==
    LET service == ToLower(service0)
    IN  IF Contains(service, kw_compute_engine) THEN "VM"
        ELSE IF Contains(service, kw_cloud_sql) THEN "Database"
        ELSE IF Contains(service, kw_cloud_functions) THEN "Function"
        ELSE IF Contains(service, kw_gke) THEN "Container"
        ELSE IF Contains(service, kw_cloud_storage) THEN "Storage"
        ELSE "Other"

---------------------------------------------------------------------------
(* internal/billing/parser.go: reading a file *)

(* A billing file is Missing (os.Open fails) or a record                   *)
(*   [badQuote |-> whether the text breaks the CSV quoting rules,          *)
(*    rows     |-> its non-empty lines, each split into its fields].       *)
Missing == [exists |-> FALSE, badQuote |-> FALSE, rows |-> <<>>]
CsvFile(rows) == [exists |-> TRUE, badQuote |-> FALSE, rows |-> rows]
BadQuoteFile(rows) == [exists |-> TRUE, badQuote |-> TRUE, rows |-> rows]

\* csv.NewReader(file).ReadAll() with the reader's defaults: FieldsPerRecord
\* is 0, so every record must have as many fields as the first one
ReadAll(file) ==
    IF file.badQuote THEN [records |-> <<>>, err |-> "quote"]
    ELSE IF \E i \in 1..Len(file.rows) : Len(file.rows[i]) # Len(file.rows[1])
         THEN [records |-> <<>>, err |-> "wrong number of fields"]
    ELSE [records |-> file.rows, err |-> "nil"]

\* a row that declares "VM" keeps that type when its service is unmatched
BillingRecord_DeclaredType(row, resourceType, project) ==
    [ ServiceName   |-> row[1],
      ResourceType  |-> IF resourceType = "Other" /\ row[2] = <<"V","M">>
                        THEN "VM" ELSE resourceType,
      ResourceID    |-> row[3],
      InstanceHours |-> ParseFloat(row[4]).f,
      TimePeriod    |-> row[5],
      Region        |-> row[6],
      Project       |-> project,
      Metadata      |-> EmptyMap ]

\* the BillingRecord literal built from one row
BillingRecord(row, resourceType, project) ==
    [ ServiceName   |-> row[1],
      ResourceType  |-> resourceType,
      ResourceID    |-> row[3],
      InstanceHours |-> ParseFloat(row[4]).f,
      TimePeriod    |-> row[5],
      Region        |-> row[6],
      Project       |-> project,
      Metadata      |-> EmptyMap ]

\* the loop "for i := 1; i < len(records); i++" of parseAWSBilling, with
\* i counted from 1 (so it starts at 2)
RECURSIVE awsRows(_, _)
awsRows(records, i) ==
    IF i > Len(records) THEN <<>>
    ELSE (IF Len(records[i]) < 6 THEN <<>>
          ELSE << BillingRecord(records[i], mapAWSServiceToType(records[i][1]), "aws-default") >>)
         \o awsRows(records, i + 1)

RECURSIVE azureRows(_, _)
azureRows(records, i) ==
    IF i > Len(records) THEN <<>>
    ELSE (IF Len(records[i]) < 6 THEN <<>>
          ELSE << BillingRecord(records[i], mapAzureServiceToType(records[i][1]), "azure-default") >>)
         \o azureRows(records, i + 1)

RECURSIVE gcpRows(_, _)
gcpRows(records, i) ==
    IF i > Len(records) THEN <<>>
    ELSE (IF Len(records[i]) < 6 THEN <<>>
          ELSE << BillingRecord(records[i], mapGCPServiceToType(records[i][1]), "gcp-default") >>)
         \o gcpRows(records, i + 1)

parseAWSBilling(file) ==
    IF ~file.exists THEN [records |-> <<>>, err |-> "open"]
    ELSE LET read == ReadAll(file)
         IN  IF read.err # "nil" THEN [records |-> <<>>, err |-> read.err]
             ELSE [records |-> awsRows(read.records, 2), err |-> "nil"]

parseAzureBilling(file) ==
    IF ~file.exists THEN [records |-> <<>>, err |-> "open"]
    ELSE LET read == ReadAll(file)
         IN  IF read.err # "nil" THEN [records |-> <<>>, err |-> read.err]
             ELSE [records |-> azureRows(read.records, 2), err |-> "nil"]

parseGCPBilling(file) ==
    IF ~file.exists THEN [records |-> <<>>, err |-> "open"]
    ELSE LET read == ReadAll(file)
         IN  IF read.err # "nil" THEN [records |-> <<>>, err |-> read.err]
             ELSE [records |-> gcpRows(read.records, 2), err |-> "nil"]

\* the switch with the AWS parser as its default case
ParseBillingFile_DefaultsToAWS(file, cloudProvider) ==
    IF cloudProvider = "azure" THEN parseAzureBilling(file)
    ELSE IF cloudProvider = "gcp" THEN parseGCPBilling(file)
    ELSE parseAWSBilling(file)

ParseBillingFile(file, cloudProvider) ==
    IF cloudProvider = "aws" THEN parseAWSBilling(file)
    ELSE IF cloudProvider = "azure" THEN parseAzureBilling(file)
    ELSE IF cloudProvider = "gcp" THEN parseGCPBilling(file)
    ELSE [records |-> <<>>, err |-> "unknown cloud provider"]

---------------------------------------------------------------------------
(* internal/assets: converter *)

\* math.Round replaced by floor(x + 1/2)
RoundToInt_HalfUp(x) == (2 * x.n + x.d) \div (2 * x.d)

ConvertToSyntheticUnits_HalfUp(assetType, avgInstancesPerHour, rules) ==
    IF assetType \notin DOMAIN rules.Rules THEN 0
    ELSE RoundToInt_HalfUp(FMulInt(avgInstancesPerHour, rules.Rules[assetType].UnitsPerInstance))

\* a type without a rule counted at one unit per instance
ConvertToSyntheticUnits_DefaultsToOne(assetType, avgInstancesPerHour, rules) ==
    IF assetType \notin DOMAIN rules.Rules THEN RoundToInt(avgInstancesPerHour)
    ELSE RoundToInt(FMulInt(avgInstancesPerHour, rules.Rules[assetType].UnitsPerInstance))

\* the product taken of the absolute value of the average
ConvertToSyntheticUnits_Abs(assetType, avgInstancesPerHour, rules) ==
    IF assetType \notin DOMAIN rules.Rules THEN 0
    ELSE RoundToInt(FMulInt([n |-> Abs(avgInstancesPerHour.n), d |-> avgInstancesPerHour.d],
                            rules.Rules[assetType].UnitsPerInstance))

\* int(math.Round(avgInstancesPerHour * float64(rule.UnitsPerInstance))),
\* for a finite average
ConvertToSyntheticUnits(assetType, avgInstancesPerHour, rules) ==
    IF assetType \notin DOMAIN rules.Rules THEN 0
    ELSE RoundToInt(FMulInt(avgInstancesPerHour, rules.Rules[assetType].UnitsPerInstance))

---------------------------------------------------------------------------
(* internal/assets/enrichment.go *)

\* every order in which "for k := range m" may visit the keys S
RECURSIVE Orders(_)
Orders(S) ==
    IF S = {} THEN { <<>> }
    ELSE UNION { { <<k>> \o rest : rest \in Orders(S \ {k}) } : k \in S }

\* the second loop without its "if !keys[k]"
mergeKeysStr_NoDedup(m1, m2) ==
    { o1 \o o2 : o1 \in Orders(DOMAIN m1), o2 \in Orders(DOMAIN m2) }

\* every list mergeKeysStr may return: the keys of m1 in some order, then
\* the keys of m2 not yet seen in some order

mergeKeysStr(m1, m2) ==
    { o1 \o o2 : o1 \in Orders(DOMAIN m1), o2 \in Orders((DOMAIN m2) \ (DOMAIN m1)) }

\* the loop "assetsByType[asset.Type]++", from asset i on
RECURSIVE groupAssets(_, _, _)
groupAssets(assets, i, assetsByType) ==
    IF i > Len(assets) THEN assetsByType
    ELSE groupAssets(assets, i + 1,
            MapPut(assetsByType, assets[i].Type, MapGet(assetsByType, assets[i].Type, 0) + 1))

\* the test written with ">=" for ">"
hasEphemeral_AtLeastZero(avgInstances, currentCount) ==
    (FGtZero(avgInstances) \/ avgInstances = FInt(0)) /\ currentCount = 0

hasEphemeral(avgInstances, currentCount) ==
    FGtZero(avgInstances) /\ currentCount = 0

\* the score computed from the deployed count
EnrichedAsset_ScoresCount(assetType, assetsByType, avgByType, rules) ==
    LET currentCount == MapGet(assetsByType, assetType, 0)
        avgInstances == MapGet(avgByType, assetType, FInt(0))
    IN  [ AssetType             |-> assetType,
          CurrentlyDeployed     |-> currentCount,
          AverageInstancesPerHr |-> avgInstances,
          HasEphemeralUsage     |-> hasEphemeral(avgInstances, currentCount),
          CalculatedUnits       |-> ConvertToSyntheticUnits(assetType, FInt(currentCount), rules) ]

\* a type that is not in the map gets its deployed count as average
EnrichedAsset_AverageFromCount(assetType, assetsByType, avgByType, rules) ==
    LET currentCount == MapGet(assetsByType, assetType, 0)
        avgInstances == MapGet(avgByType, assetType, FInt(currentCount))
    IN  [ AssetType             |-> assetType,
          CurrentlyDeployed     |-> currentCount,
          AverageInstancesPerHr |-> avgInstances,
          HasEphemeralUsage     |-> hasEphemeral(avgInstances, currentCount),
          CalculatedUnits       |-> ConvertToSyntheticUnits(assetType, avgInstances, rules) ]

\* the EnrichedAsset appended for one asset type
EnrichedAsset(assetType, assetsByType, avgByType, rules) ==
    LET currentCount == MapGet(assetsByType, assetType, 0)
        avgInstances == MapGet(avgByType, assetType, FInt(0))
    IN  [ AssetType             |-> assetType,
          CurrentlyDeployed     |-> currentCount,
          AverageInstancesPerHr |-> avgInstances,
          HasEphemeralUsage     |-> hasEphemeral(avgInstances, currentCount),
          CalculatedUnits       |-> ConvertToSyntheticUnits(assetType, avgInstances, rules) ]

\* every list EnrichAssets may return (one per iteration order of the maps)
EnrichAssets(assets, avgByType, rules) ==
    LET assetsByType == groupAssets(assets, 1, EmptyMap)
    IN  { [i \in 1..Len(allTypes) |->
              EnrichedAsset(allTypes[i], assetsByType, avgByType, rules)]
          : allTypes \in mergeKeysStr(assetsByType, avgByType) }

\* EphemeralCount filled from the deployed count
AggregateForOutput_CountsDeployed(enriched) ==
    [i \in 1..Len(enriched) |->
        [ AssetType           |-> enriched[i].AssetType,
          CurrentCount        |-> enriched[i].CurrentlyDeployed,
          EphemeralCount      |-> enriched[i].CurrentlyDeployed,
          AvgInstancesPerHour |-> enriched[i].AverageInstancesPerHr,
          SyntheticUnits      |-> enriched[i].CalculatedUnits ] ]

\* output[len(enriched)-1-i] for output[i]
AggregateForOutput_Reversed(enriched) ==
    [i \in 1..Len(enriched) |->
        LET e == enriched[Len(enriched) + 1 - i]
        IN  [ AssetType           |-> e.AssetType,
              CurrentCount        |-> e.CurrentlyDeployed,
              EphemeralCount      |-> IF e.HasEphemeralUsage THEN 1 ELSE 0,
              AvgInstancesPerHour |-> e.AverageInstancesPerHr,
              SyntheticUnits      |-> e.CalculatedUnits ] ]

AggregateForOutput(enriched) ==
    [i \in 1..Len(enriched) |->
        [ AssetType           |-> enriched[i].AssetType,
          CurrentCount        |-> enriched[i].CurrentlyDeployed,
          EphemeralCount      |-> IF enriched[i].HasEphemeralUsage THEN 1 ELSE 0,
          AvgInstancesPerHour |-> enriched[i].AverageInstancesPerHr,
          SyntheticUnits      |-> enriched[i].CalculatedUnits ] ]

---------------------------------------------------------------------------
(* internal/config: loader *)

\* a config file is absent, or holds text that is or is not valid JSON
NoConfigFile == [exists |-> FALSE, validJSON |-> FALSE, cfg |-> EmptyMap]
BadConfigFile == [exists |-> TRUE, validJSON |-> FALSE, cfg |-> EmptyMap]
ConfigFile(c) == [exists |-> TRUE, validJSON |-> TRUE, cfg |-> c]

\* a nil rule map is replaced by an empty one: both read as "no rule"
LoadConfig(file) ==
    IF ~file.exists THEN [cfg |-> EmptyMap, err |-> "failed to read config file"]
    ELSE IF ~file.validJSON THEN [cfg |-> EmptyMap, err |-> "failed to parse config file"]
    ELSE [cfg |-> file.cfg, err |-> "nil"]

---------------------------------------------------------------------------
(* Strings used as inputs. *)

\* header and identifier fields
h_service == <<"s","e","r","v","i","c","e">>
h_resourceType == <<"r","e","s","o","u","r","c","e","T","y","p","e">>
h_resourceId == <<"r","e","s","o","u","r","c","e","I","d">>
h_instanceHours == <<"i","n","s","t","a","n","c","e","H","o","u","r","s">>
h_period == <<"p","e","r","i","o","d">>
h_region == <<"r","e","g","i","o","n">>
h_note == <<"n","o","t","e">>
t_VM == <<"V","M">>
t_Database == <<"D","a","t","a","b","a","s","e">>
id_i1 == <<"i","-","1">>
id_db1 == <<"d","b","-","1">>
id_x == <<"x","-","1">>
r_us_east_1 == <<"u","s","-","e","a","s","t","-","1">>
r_westeurope == <<"w","e","s","t","e","u","r","o","p","e">>

\* service names
sv_EC2 == <<"E","C","2">>
sv_ec2_lower == <<"e","c","2">>
sv_Amazon_Ec2 == <<"A","m","a","z","o","n"," ","E","c","2">>
sv_RDS == <<"R","D","S">>
sv_Lambda == <<"L","a","m","b","d","a">>
sv_ECS == <<"E","C","S">>
sv_S3 == <<"S","3">>
sv_Glue == <<"G","l","u","e">>
sv_EC2_RDS == <<"E","C","2"," ","R","D","S">>
sv_empty == <<>>
sv_Virtual_Machines == <<"V","i","r","t","u","a","l"," ","M","a","c","h","i","n","e","s">>
sv_VM_Scale == <<"V","M"," ","S","c","a","l","e">>
sv_SQL_Database == <<"S","Q","L"," ","D","a","t","a","b","a","s","e">>
sv_Functions == <<"F","u","n","c","t","i","o","n","s">>
sv_Container_Apps == <<"C","o","n","t","a","i","n","e","r"," ","A","p","p","s">>
sv_Storage == <<"S","t","o","r","a","g","e">>
sv_Cosmos == <<"C","o","s","m","o","s">>
sv_Compute_Engine == <<"C","o","m","p","u","t","e"," ","E","n","g","i","n","e">>
sv_COMPUTE_ENGINE == <<"C","O","M","P","U","T","E"," ","E","N","G","I","N","E">>
sv_Cloud_SQL == <<"C","l","o","u","d"," ","S","Q","L">>
sv_Cloud_Functions == <<"C","l","o","u","d"," ","F","u","n","c","t","i","o","n","s">>
sv_GKE == <<"G","K","E">>
sv_Cloud_Storage == <<"C","l","o","u","d"," ","S","t","o","r","a","g","e">>
sv_BigQuery == <<"B","i","g","Q","u","e","r","y">>
sv_Compute == <<"C","o","m","p","u","t","e">>
sv_RDS_on_EC2 == <<"R","D","S"," ","o","n"," ","E","C","2">>
sv_Lambda_RDS == <<"L","a","m","b","d","a"," ","R","D","S">>
sv_S3_ECS == <<"S","3"," ","E","C","S">>
sv_ECS_Lambda == <<"E","C","S"," ","L","a","m","b","d","a">>
sv_SQL_on_VM == <<"S","Q","L"," ","o","n"," ","V","M">>
sv_DevMachine_Storage == <<"D","e","v","M","a","c","h","i","n","e"," ","S","Q","L"," ","S","t","o","r","a","g","e">>
sv_Storage_Functions == <<"S","t","o","r","a","g","e"," ","F","u","n","c","t","i","o","n","s">>
sv_Container_SQL == <<"C","o","n","t","a","i","n","e","r"," ","S","Q","L">>
sv_Storage_Container == <<"S","t","o","r","a","g","e"," ","C","o","n","t","a","i","n","e","r">>
sv_SQL_Compute_Engine == <<"C","l","o","u","d"," ","S","Q","L"," ","C","o","m","p","u","t","e"," ","E","n","g","i","n","e">>
sv_Storage_GKE == <<"C","l","o","u","d"," ","S","t","o","r","a","g","e"," ","G","K","E">>
sv_Functions_Cloud_SQL == <<"C","l","o","u","d"," ","F","u","n","c","t","i","o","n","s"," ","C","l","o","u","d"," ","S","Q","L">>
sv_GKE_Functions == <<"G","K","E"," ","C","l","o","u","d"," ","F","u","n","c","t","i","o","n","s">>

\* instanceHours fields
n_720 == <<"7","2","0">>
n_744 == <<"7","4","4">>
n_360 == <<"3","6","0">>
n_0 == <<"0">>
n_12_5 == <<"1","2",".","5">>
n_minus_24 == <<"-","2","4">>
n_1e2 == <<"1","e","2">>
n_abc == <<"a","b","c">>
n_12x == <<"1","2","x">>
n_empty == <<>>
n_1e400 == <<"1","e","4","0","0">>
n_minus_1e400 == <<"-","1","e","4","0","0">>

\* periods
p_2024_02 == <<"2","0","2","4","-","0","2">>
p_2023_02 == <<"2","0","2","3","-","0","2">>
p_2024_04 == <<"2","0","2","4","-","0","4">>
p_2024 == <<"2","0","2","4">>
p_empty == <<>>
p_24_01 == <<"2","4","-","0","1">>
p_202401 == <<"2","0","2","4","0","1">>
p_2024_0 == <<"2","0","2","4","-","0">>
p_2024_13 == <<"2","0","2","4","-","1","3">>
p_2024_00 == <<"2","0","2","4","-","0","0">>
p_2024_1_5 == <<"2","0","2","4","/","1","/","5">>
p_2024_01_15 == <<"2","0","2","4","-","0","1","-","1","5">>
p_2024_02_15 == <<"2","0","2","4","-","0","2","-","1","5">>
p_2024_13_01 == <<"2","0","2","4","-","1","3","-","0","1">>
p_2024_ab == <<"2","0","2","4","-","a","b">>
p_2024_1_05 == <<"2","0","2","4","-","1","-","0","5">>
p_Jan_2024 == <<"J","a","n"," ","2","0","2","4">>

TwoDigits(k) == << DigitChars[(k \div 10) + 1], DigitChars[(k % 10) + 1] >>
Years == { <<"2","0","2","4">>, <<"2","0","2","3">>, <<"2","0","0","0">>, <<"1","9","0","0">> }
\* the period "YYYY-MM"
Period(year, mm) == year \o <<"-">> \o TwoDigits(mm)
p_2024_01 == Period(<<"2","0","2","4">>, 1)

Header6 == << h_service, h_resourceType, h_resourceId, h_instanceHours, h_period, h_region >>
Header5 == << h_service, h_resourceType, h_resourceId, h_instanceHours, h_period >>
Header7 == << h_service, h_resourceType, h_resourceId, h_instanceHours, h_period, h_region, h_note >>
Row(service, declared, hours, period) ==
    << service, declared, id_i1, hours, period, r_us_east_1 >>
ShortRow(service) == << service, t_Database, id_db1, n_744, p_2024_01 >>
LongRow(service) == << service, t_VM, id_x, n_360, p_2024_01, r_westeurope, h_note >>

---------------------------------------------------------------------------
(* cmd/cloudcostcala/main.go: the inputs of a run *)

RulesDefault ==
    [Rules |-> [t \in {"VM", "Database", "Container", "Storage", "Function"} |->
                  [UnitsPerInstance |-> IF t = "Container" THEN 2
                                        ELSE IF t = "Function" THEN 1 ELSE 5]]]
RulesVmDb == [Rules |-> [t \in {"VM", "Database"} |-> [UnitsPerInstance |-> 5]]]
RulesNone == [Rules |-> EmptyMap]
RulesSigned ==
    [Rules |-> [t \in {"VM", "Container", "Other"} |->
                  [UnitsPerInstance |-> IF t = "VM" THEN -2
                                        ELSE IF t = "Container" THEN 0 ELSE 3]]]

\* the README's example file
AwsReadmeFile ==
    CsvFile(<< Header6, Row(sv_EC2, t_VM, n_720, p_2024_01),
                        Row(sv_RDS, t_Database, n_744, p_2024_01) >>)
\* a file with a short row after a full one
AwsRaggedFile ==
    CsvFile(<< Header6, Row(sv_EC2, t_VM, n_720, p_2024_01), ShortRow(sv_RDS) >>)

AwsFiles ==
    { Missing, CsvFile(<< Header6 >>), AwsReadmeFile, AwsRaggedFile,
      CsvFile(<< Header6, Row(sv_Glue, t_VM, n_abc, p_2024_02) >>) }
AzureFiles ==
    { Missing, BadQuoteFile(<< Header6 >>),
      CsvFile(<< Header6, Row(sv_Virtual_Machines, t_VM, n_744, p_2024_02),
                          Row(sv_SQL_Database, t_Database, n_360, p_2024_02) >>),
      CsvFile(<< Header6, Row(sv_Cosmos, t_Database, n_12_5, p_2024_04),
                          Row(sv_Cosmos, t_Database, n_744, p_2024_04) >>) }
GcpFiles ==
    { Missing, CsvFile(<<>>),
      CsvFile(<< Header6, Row(sv_Compute_Engine, t_VM, n_744, p_2024_01),
                          Row(sv_GKE, t_VM, n_360, p_2024) >>),
      CsvFile(<< Header6, Row(sv_BigQuery, t_Database, n_empty, p_2024) >>) }

\* a configuration: a billing file path per provider ("" when the provider
\* is not configured) and the rule table
Config(aws, azure, gcp, rules) ==
    [ Billing |-> [ AWS   |-> [FilePath |-> aws],
                    Azure |-> [FilePath |-> azure],
                    GCP   |-> [FilePath |-> gcp] ],
      SyntheticUnits |-> rules ]

\* a configuration naming a file for each provider
AllPaths == Config("aws.csv", "azure.csv", "gcp.csv", RulesDefault)

Configs ==
    { Config(a, z, g, r) : a \in {"", "aws.csv"}, z \in {"", "azure.csv"},
                           g \in {"", "gcp.csv"},
                           r \in {RulesDefault, RulesVmDb, RulesNone} }

\* the file behind each configured path; no file is looked at for ""
FileSystems(c) ==
    { [aws |-> a, azure |-> z, gcp |-> g] :
        a \in (IF c.Billing.AWS.FilePath = "" THEN {Missing} ELSE AwsFiles),
        z \in (IF c.Billing.Azure.FilePath = "" THEN {Missing} ELSE AzureFiles),
        g \in (IF c.Billing.GCP.FilePath = "" THEN {Missing} ELSE GcpFiles) }

NoSheet == [written |-> FALSE]
NoCall == [fn |-> "none"]
NoRet == [fn |-> "none"]

\* the harness variables, while main runs
HarnessIdle == call = NoCall /\ ret = NoRet

Init ==
    /\ pc = "start"
    /\ \/ /\ configFile \in {NoConfigFile, BadConfigFile}
          /\ billingFiles \in FileSystems(AllPaths)
       \/ \E c \in Configs :
             /\ configFile = ConfigFile(c)
             /\ billingFiles \in FileSystems(c)
    /\ cfg = EmptyMap
    /\ allAssets = <<>>
    /\ allBillingRecords = <<>>
    /\ billingPeriod = <<>>
    /\ avgInstancesByType = EmptyMap
    /\ enrichedAssets = <<>>
    /\ aggregated = <<>>
    /\ stdout = <<>>
    /\ stderr = <<>>
    /\ excelFile = NoSheet
    /\ exitCode = -1
    /\ HarnessIdle

---------------------------------------------------------------------------
(* cmd/cloudcostcala/main.go: main, step by step *)

Event(name, arg) == [ev |-> name, arg |-> arg]
\* log.Fatal / log.Fatalf: the message, then os.Exit(1)
Fatal(msg) ==
    /\ stderr' = Append(stderr, Event("fatal", msg))
    /\ exitCode' = 1
    /\ pc' = "fatal"

\* a failed load is ignored and the run goes on with all paths configured
LoadConfigStep_WarnsOnly ==
    /\ pc = "start"
    /\ LET loaded == LoadConfig(configFile)
       IN  /\ cfg' = IF loaded.err # "nil" THEN AllPaths ELSE loaded.cfg
           /\ stdout' = Append(stdout, Event("banner", "CloudCostCalaCLI"))
           /\ pc' = "aws"
           /\ UNCHANGED <<stderr, exitCode>>
    /\ UNCHANGED <<configFile, billingFiles, allAssets, allBillingRecords,
                   billingPeriod, avgInstancesByType, enrichedAssets,
                   aggregated, excelFile, call, ret>>

LoadConfigStep ==
    /\ pc = "start"
    /\ LET loaded == LoadConfig(configFile)
       IN  IF loaded.err # "nil"
           THEN /\ Fatal("Error loading config")
                /\ UNCHANGED <<cfg, stdout>>
           ELSE /\ cfg' = loaded.cfg
                /\ stdout' = Append(stdout, Event("banner", "CloudCostCalaCLI"))
                /\ pc' = "aws"
                /\ UNCHANGED <<stderr, exitCode>>
    /\ UNCHANGED <<configFile, billingFiles, allAssets, allBillingRecords,
                   billingPeriod, avgInstancesByType, enrichedAssets,
                   aggregated, excelFile, call, ret>>

\* one "Process <provider> billing" block of main
ProcessProvider(filePath, file, provider, next) ==
    /\ pc' = next
    /\ IF filePath = ""
       THEN UNCHANGED <<allBillingRecords, stdout, stderr>>
       ELSE LET parsed == ParseBillingFile(file, provider)
            IN  IF parsed.err # "nil"
                THEN /\ stderr' = Append(stderr, Event("warning", provider))
                     /\ stdout' = Append(stdout, Event("processing", provider))
                     /\ UNCHANGED allBillingRecords
                ELSE /\ allBillingRecords' = allBillingRecords \o parsed.records
                     /\ stdout' = stdout \o << Event("processing", provider),
                                              Event("loaded", Len(parsed.records)) >>
                     /\ UNCHANGED stderr
    /\ UNCHANGED <<configFile, billingFiles, cfg, allAssets, billingPeriod,
                   avgInstancesByType, enrichedAssets, aggregated, excelFile,
                   exitCode, call, ret>>

ProcessAWS ==
    /\ pc = "aws"
    /\ ProcessProvider(cfg.Billing.AWS.FilePath, billingFiles.aws, "aws", "azure")

\* the Azure block written with "=" for "append"
ProcessAzure_Overwrites ==
    /\ pc = "azure"
    /\ pc' = "gcp"
    /\ IF cfg.Billing.Azure.FilePath = ""
       THEN UNCHANGED <<allBillingRecords, stdout, stderr>>
       ELSE LET parsed == ParseBillingFile(billingFiles.azure, "azure")
            IN  /\ allBillingRecords' = parsed.records
                /\ stdout' = Append(stdout, Event("processing", "azure"))
                /\ stderr' = IF parsed.err # "nil"
                             THEN Append(stderr, Event("warning", "azure")) ELSE stderr
    /\ UNCHANGED <<configFile, billingFiles, cfg, allAssets, billingPeriod,
                   avgInstancesByType, enrichedAssets, aggregated, excelFile,
                   exitCode, call, ret>>

ProcessAzure ==
    /\ pc = "azure"
    /\ ProcessProvider(cfg.Billing.Azure.FilePath, billingFiles.azure, "azure", "gcp")

ProcessGCP ==
    /\ pc = "gcp"
    /\ ProcessProvider(cfg.Billing.GCP.FilePath, billingFiles.gcp, "gcp", "check")

\* the check "len(allBillingRecords) == 0" left out
CheckRecords_NoCheck ==
    /\ pc = "check"
    /\ pc' = "normalize"
    /\ UNCHANGED <<mainVars, call, ret>>

\* the run fails only when no billing file is configured
CheckRecords_ChecksPaths ==
    /\ pc = "check"
    /\ IF /\ cfg.Billing.AWS.FilePath = ""
          /\ cfg.Billing.Azure.FilePath = ""
          /\ cfg.Billing.GCP.FilePath = ""
       THEN Fatal("No billing records loaded. Check config file paths.")
       ELSE pc' = "normalize" /\ UNCHANGED <<stderr, exitCode>>
    /\ UNCHANGED <<configFile, billingFiles, cfg, allAssets, allBillingRecords,
                   billingPeriod, avgInstancesByType, enrichedAssets,
                   aggregated, stdout, excelFile, call, ret>>

CheckRecords ==
    /\ pc = "check"
    /\ IF Len(allBillingRecords) = 0
       THEN Fatal("No billing records loaded. Check config file paths.")
       ELSE pc' = "normalize" /\ UNCHANGED <<stderr, exitCode>>
    /\ UNCHANGED <<configFile, billingFiles, cfg, allAssets, allBillingRecords,
                   billingPeriod, avgInstancesByType, enrichedAssets,
                   aggregated, stdout, excelFile, call, ret>>

NormalizeStep ==
    /\ pc = "normalize"
    /\ LET period == GetBillingPeriod(allBillingRecords)
           avg    == AggregateByType(allBillingRecords, period)
       IN  /\ billingPeriod' = period
           /\ avgInstancesByType' = avg
           /\ stdout' = stdout \o << Event("normalizing", period),
                                    Event("types found", DOMAIN avg) >>
    /\ pc' = "enrich"
    /\ UNCHANGED <<configFile, billingFiles, cfg, allAssets, allBillingRecords,
                   enrichedAssets, aggregated, stderr, excelFile, exitCode,
                   call, ret>>

EnrichStep ==
    /\ pc = "enrich"
    /\ \E enriched \in EnrichAssets(allAssets, avgInstancesByType, cfg.SyntheticUnits) :
          /\ enrichedAssets' = enriched
          /\ stdout' = Append(stdout, Event("enriched", Len(enriched)))
    /\ pc' = "aggregate"
    /\ UNCHANGED <<configFile, billingFiles, cfg, allAssets, allBillingRecords,
                   billingPeriod, avgInstancesByType, aggregated, stderr,
                   excelFile, exitCode, call, ret>>

AggregateStep ==
    /\ pc = "aggregate"
    /\ aggregated' = AggregateForOutput(enrichedAssets)
    /\ stdout' = Append(stdout, Event("aggregating", Len(enrichedAssets)))
    /\ pc' = "print"
    /\ UNCHANGED <<configFile, billingFiles, cfg, allAssets, allBillingRecords,
                   billingPeriod, avgInstancesByType, enrichedAssets, stderr,
                   excelFile, exitCode, call, ret>>

---------------------------------------------------------------------------
(* pkg/output/excel.go *)

RECURSIVE BigLessFrom(_, _, _)
BigLessFrom(a, b, i) ==
    IF i = 0 THEN FALSE
    ELSE IF a[i] # b[i] THEN a[i] < b[i]
    ELSE BigLessFrom(a, b, i - 1)

\* a < b for naturals in limbs without zero limbs at the top
BigLess(a, b) ==
    IF Len(a) # Len(b) THEN Len(a) < Len(b) ELSE BigLessFrom(a, b, Len(a))

\* the float64 nearest to n/d lies above n/d (n, d > 0)
Float64IsAbove(n, d) ==
    LET f == Float64(n, d)
    IN  IF f.e >= 0 THEN BigLess(BigMulSmall(BigOfInt(n), d), BigShl(BigMulSmall(f.m, d), f.e))
        ELSE BigLess(BigShl(BigOfInt(n), -f.e), BigMulSmall(f.m, d))

\* |x| in hundredths as "%.2f" rounds it: to the nearest hundredth of the
\* float64's exact value; a value exactly half way goes to the even digit.
\* A ratio n/d half way between two hundredths is a float64 only when d is
\* a power of two; otherwise the float64 nearest to it decides.
Hundredths(x) ==
    LET n == 100 * Abs(x.n)
        q == n \div x.d
        r == n % x.d
    IN  IF 2 * r < x.d THEN q
        ELSE IF 2 * r > x.d THEN q + 1
        ELSE IF Pow2(BitLen(x.d) - 1) = x.d
             THEN (IF q % 2 = 1 THEN q + 1 ELSE q)
        ELSE IF Float64IsAbove(Abs(x.n), x.d) THEN q + 1 ELSE q

\* fmt's "%.2f" of x: the sign and the digits it prints, the digits as a
\* number of hundredths ("1.50" is 150); "+Inf", "-Inf" and "NaN" for the
\* values that are no numbers
Sprintf2f(x) ==
    IF IsNaN(x) THEN [text |-> "NaN", minus |-> FALSE, hundredths |-> 0]
    ELSE IF ~IsFinite(x)
         THEN [text |-> IF x.n > 0 THEN "+Inf" ELSE "-Inf", minus |-> x.n < 0,
               hundredths |-> 0]
    ELSE [text |-> "%.2f", minus |-> x.n < 0, hundredths |-> Hundredths(x)]

\* the running totals of PrintSummaryTable after the first i rows
RECURSIVE tableTotals(_, _)
\* the ephemeral total counts the rows
tableTotals_CountsRows(assets, i) ==
    IF i = 0
    THEN [ totalCurrent |-> 0, totalEphemeral |-> 0,
           totalAvgInstances |-> FInt(0), totalUnits |-> 0 ]
    ELSE LET t == tableTotals(assets, i - 1)
         IN  [ totalCurrent      |-> t.totalCurrent + assets[i].CurrentCount,
               totalEphemeral    |-> t.totalEphemeral + 1,
               totalAvgInstances |-> FAdd(t.totalAvgInstances, assets[i].AvgInstancesPerHour),
               totalUnits        |-> t.totalUnits + assets[i].SyntheticUnits ]

tableTotals(assets, i) ==
    IF i = 0
    THEN [ totalCurrent |-> 0, totalEphemeral |-> 0,
           totalAvgInstances |-> FInt(0), totalUnits |-> 0 ]
    ELSE LET t == tableTotals(assets, i - 1)
         IN  [ totalCurrent      |-> t.totalCurrent + assets[i].CurrentCount,
               totalEphemeral    |-> t.totalEphemeral + assets[i].EphemeralCount,
               totalAvgInstances |-> FAdd(t.totalAvgInstances, assets[i].AvgInstancesPerHour),
               totalUnits        |-> t.totalUnits + assets[i].SyntheticUnits ]

\* the lines PrintSummaryTable prints
PrintSummaryTable(assets) ==
    << Event("table header", "Asset Type") >>
    \o [i \in 1..Len(assets) |->
          Event("table row",
                [ AssetType |-> assets[i].AssetType,
                  CurrentCount |-> assets[i].CurrentCount,
                  EphemeralCount |-> assets[i].EphemeralCount,
                  AvgInstancesPerHour |-> Sprintf2f(assets[i].AvgInstancesPerHour),
                  SyntheticUnits |-> assets[i].SyntheticUnits ])]
    \o << Event("table total",
                [ AssetType |-> "TOTAL",
                  CurrentCount |-> tableTotals(assets, Len(assets)).totalCurrent,
                  EphemeralCount |-> tableTotals(assets, Len(assets)).totalEphemeral,
                  AvgInstancesPerHour |->
                      Sprintf2f(tableTotals(assets, Len(assets)).totalAvgInstances),
                  SyntheticUnits |-> tableTotals(assets, Len(assets)).totalUnits ]) >>

Columns == << "A", "B", "C", "D", "E" >>
Headers == << "Asset Type", "Current Count", "Ephemeral Count",
              "Avg Instances/Hr", "Synthetic Units" >>

\* the SUM formulas reach down to the totals row itself
SheetCells_SumsTotalRow(assets) ==
    LET n       == Len(assets)
        lastRow == IF n > 0 THEN n + 2 ELSE 1
        cell(c, row) ==
            IF row = 1 THEN [value |-> Headers[c]]
            ELSE IF row <= n + 1
                 THEN LET asset == assets[row - 1]
                      IN  IF c = 1 THEN [value |-> asset.AssetType]
                          ELSE IF c = 2 THEN [value |-> asset.CurrentCount]
                          ELSE IF c = 3 THEN [value |-> asset.EphemeralCount]
                          ELSE IF c = 4 THEN [value |-> Sprintf2f(asset.AvgInstancesPerHour)]
                          ELSE [value |-> asset.SyntheticUnits]
            ELSE IF c = 1 THEN [value |-> "TOTAL"]
                 ELSE [formula |-> [fn |-> "SUM", col |-> Columns[c],
                                    from |-> 2, to |-> row]]
    IN  [cr \in { <<Columns[c], row>> : c \in 1..5, row \in 1..lastRow } |->
            cell(CHOOSE c \in 1..5 : Columns[c] = cr[1], cr[2])]

\* the cells of Sheet1 that WriteExcel sets, by <<column, row>>
SheetCells(assets) ==
    LET n       == Len(assets)
        lastRow == IF n > 0 THEN n + 2 ELSE 1
        cell(c, row) ==
            IF row = 1 THEN [value |-> Headers[c]]
            ELSE IF row <= n + 1
                 THEN LET asset == assets[row - 1]
                      IN  IF c = 1 THEN [value |-> asset.AssetType]
                          ELSE IF c = 2 THEN [value |-> asset.CurrentCount]
                          ELSE IF c = 3 THEN [value |-> asset.EphemeralCount]
                          ELSE IF c = 4 THEN [value |-> Sprintf2f(asset.AvgInstancesPerHour)]
                          ELSE [value |-> asset.SyntheticUnits]
            ELSE IF c = 1 THEN [value |-> "TOTAL"]
                 ELSE [formula |-> [fn |-> "SUM", col |-> Columns[c],
                                    from |-> 2, to |-> row - 1]]
    IN  [cr \in { <<Columns[c], row>> : c \in 1..5, row \in 1..lastRow } |->
            cell(CHOOSE c \in 1..5 : Columns[c] = cr[1], cr[2])]

\* the file WriteExcel leaves when SaveAs succeeds
WriteExcel(assets) == [written |-> TRUE, cells |-> SheetCells(assets)]

---------------------------------------------------------------------------
(* cmd/cloudcostcala/main.go: main, the reporting steps *)

PrintStep ==
    /\ pc = "print"
    /\ stdout' = stdout \o PrintSummaryTable(aggregated)
    /\ pc' = "excel"
    /\ UNCHANGED <<configFile, billingFiles, cfg, allAssets, allBillingRecords,
                   billingPeriod, avgInstancesByType, enrichedAssets,
                   aggregated, stderr, excelFile, exitCode, call, ret>>

\* SaveAs succeeds
WriteExcelStep ==
    /\ pc = "excel"
    /\ excelFile' = WriteExcel(aggregated)
    /\ stdout' = stdout \o << Event("generating", "excel"),
                             Event("generated", "excel") >>
    /\ pc' = "examples"
    /\ UNCHANGED <<configFile, billingFiles, cfg, allAssets, allBillingRecords,
                   billingPeriod, avgInstancesByType, enrichedAssets,
                   aggregated, stderr, exitCode, call, ret>>

\* the error of SaveAs is logged and the run goes on
WriteExcelFails_Continues ==
    /\ pc = "excel"
    /\ stdout' = stdout \o << Event("generating", "excel"),
                             Event("generated", "excel") >>
    /\ stderr' = Append(stderr, Event("fatal", "Error writing Excel"))
    /\ pc' = "examples"
    /\ UNCHANGED <<configFile, billingFiles, cfg, allAssets, allBillingRecords,
                   billingPeriod, avgInstancesByType, enrichedAssets,
                   aggregated, excelFile, exitCode, call, ret>>

\* SaveAs fails (the path is not writable)
WriteExcelFails ==
    /\ pc = "excel"
    /\ stdout' = Append(stdout, Event("generating", "excel"))
    /\ Fatal("Error writing Excel")
    /\ UNCHANGED <<configFile, billingFiles, cfg, allAssets, allBillingRecords,
                   billingPeriod, avgInstancesByType, enrichedAssets,
                   aggregated, excelFile, call, ret>>

\* PrintNormalizationExample, PrintConversionExample, the closing banner
ExamplesStep ==
    /\ pc = "examples"
    /\ stdout' = stdout \o << Event("normalization example",
                                   [period |-> billingPeriod,
                                    days |-> getDaysInPeriod(billingPeriod),
                                    hours |-> getDaysInPeriod(billingPeriod) * 24]),
                             Event("conversion example", "examples"),
                             Event("complete", "Processing Complete!") >>
    /\ exitCode' = 0
    /\ pc' = "done"
    /\ UNCHANGED <<configFile, billingFiles, cfg, allAssets, allBillingRecords,
                   billingPeriod, avgInstancesByType, enrichedAssets,
                   aggregated, stderr, excelFile, call, ret>>

Next ==
    \/ LoadConfigStep
    \/ ProcessAWS
    \/ ProcessAzure
    \/ ProcessGCP
    \/ CheckRecords
    \/ NormalizeStep
    \/ EnrichStep
    \/ AggregateStep
    \/ PrintStep
    \/ WriteExcelStep
    \/ WriteExcelFails
    \/ ExamplesStep

Spec == Init /\ [][Next]_vars

---------------------------------------------------------------------------
(* The program run twice on the same files and configuration. *)

\* the process is started again after a complete run; ret keeps the rows the
\* first run handed to PrintSummaryTable and WriteExcel; the file written by
\* the first run stays on disk
RunAgain ==
    /\ pc = "done" /\ ret = NoRet
    /\ ret' = [fn |-> "main", aggregated |-> aggregated]
    /\ pc' = "start"
    /\ cfg' = EmptyMap
    /\ allAssets' = <<>>
    /\ allBillingRecords' = <<>>
    /\ billingPeriod' = <<>>
    /\ avgInstancesByType' = EmptyMap
    /\ enrichedAssets' = <<>>
    /\ aggregated' = <<>>
    /\ stdout' = <<>>
    /\ stderr' = <<>>
    /\ exitCode' = -1
    /\ UNCHANGED <<configFile, billingFiles, excelFile, call>>

NextTwice == Next \/ RunAgain

SpecTwice == Init /\ [][NextTwice]_vars

---------------------------------------------------------------------------
(* Function harness: Init draws one call, the action applies the function. *)

\* main's variables while a single function is exercised
MainIdle ==
    /\ configFile = NoConfigFile
    /\ billingFiles = [aws |-> Missing, azure |-> Missing, gcp |-> Missing]
    /\ cfg = EmptyMap
    /\ allAssets = <<>>
    /\ allBillingRecords = <<>>
    /\ billingPeriod = <<>>
    /\ avgInstancesByType = EmptyMap
    /\ enrichedAssets = <<>>
    /\ aggregated = <<>>
    /\ stdout = <<>>
    /\ stderr = <<>>
    /\ excelFile = NoSheet
    /\ exitCode = -1

\* all sequences over S of length n
SeqsOf(S, n) == [1..n -> S]

Return(value) ==
    /\ ret' = value
    /\ pc' = "ret"
    /\ UNCHANGED <<mainVars, call>>

---------------------------------------------------------------------------
(* Harness of the parser. *)

AwsServices == { sv_EC2, sv_ec2_lower, sv_Amazon_Ec2, sv_RDS, sv_Lambda, sv_ECS,
                 sv_S3, sv_Glue, sv_EC2_RDS, sv_empty }
AzureServices == { sv_Virtual_Machines, sv_VM_Scale, sv_SQL_Database, sv_Functions,
                   sv_Container_Apps, sv_Storage, sv_Cosmos }
GcpServices == { sv_Compute_Engine, sv_COMPUTE_ENGINE, sv_Cloud_SQL, sv_Cloud_Functions,
                 sv_GKE, sv_Cloud_Storage, sv_BigQuery, sv_Compute }
AllServices == AwsServices \cup AzureServices \cup GcpServices

HoursFields == { n_744, n_0, n_12_5, n_minus_24, n_1e2, n_abc, n_12x, n_empty,
                 n_1e400, n_minus_1e400 }

\* service names with keywords of several types
MixedServices ==
    { sv_RDS_on_EC2, sv_Lambda_RDS, sv_S3_ECS, sv_ECS_Lambda,
      sv_SQL_on_VM, sv_DevMachine_Storage, sv_Storage_Functions, sv_Container_SQL,
      sv_Storage_Container,
      sv_SQL_Compute_Engine, sv_Storage_GKE, sv_Functions_Cloud_SQL, sv_GKE_Functions }

ServicesOf(provider) ==
    IF provider = "aws" THEN AwsServices
    ELSE IF provider = "azure" THEN AzureServices
    ELSE GcpServices

\* the rows drawn for a provider's file: every service of the provider,
\* every spelling of the instanceHours field, a short and a long row
RowsOf(provider) ==
    LET s0 == CHOOSE s \in ServicesOf(provider) : s \in {sv_EC2, sv_SQL_Database, sv_GKE}
    IN  { Row(s, t_VM, n_720, p_2024_01) : s \in ServicesOf(provider) }
        \cup { Row(s0, t_Database, h, p_2024_02) : h \in HoursFields }
        \cup { ShortRow(s0), LongRow(s0) }

\* the file with the resourceType column of every data row set to declared
Redeclared(file, declared) ==
    [file EXCEPT !.rows = [i \in 1..Len(file.rows) |->
                              IF i = 1 THEN file.rows[1]
                              ELSE [file.rows[i] EXCEPT ![2] = declared]]]

\* one call of ParseBillingFile or of a mapping function
InitParser ==
    /\ pc = "call" /\ ret = NoRet /\ MainIdle
    /\ \/ \E p \in {"aws", "azure", "gcp"}, h \in {Header6, Header5, Header7},
             n \in 0..MaxRows :
             \E rows \in SeqsOf(RowsOf(p), n) :
                call = [fn |-> "ParseBillingFile", file |-> CsvFile(<< h >> \o rows),
                        cloudProvider |-> p]
       \/ \E p \in {"aws", "azure", "gcp"},
             f \in {Missing, CsvFile(<<>>), BadQuoteFile(<< Header6 >>)} :
             call = [fn |-> "ParseBillingFile", file |-> f, cloudProvider |-> p]
       \/ \E f \in {Missing, AwsReadmeFile} :
             call = [fn |-> "ParseBillingFile", file |-> f, cloudProvider |-> "oci"]
       \/ \E p \in {"aws", "azure", "gcp"}, n \in 0..MaxRows,
             d \in {t_VM, t_Database, <<>>} :
             \E rows \in SeqsOf(RowsOf(p), n) :
                call = [fn |-> "ParseBillingFile redeclared",
                        file |-> CsvFile(<< Header6 >> \o rows),
                        redeclared |-> Redeclared(CsvFile(<< Header6 >> \o rows), d),
                        cloudProvider |-> p]
       \/ \E m \in {"mapAWSServiceToType", "mapAzureServiceToType",
                     "mapGCPServiceToType"}, s \in AllServices \cup MixedServices :
             call = [fn |-> m, service |-> s]

CallParseBillingFile ==
    /\ pc = "call" /\ call.fn = "ParseBillingFile"
    /\ Return(ParseBillingFile(call.file, call.cloudProvider))

CallMapAWSServiceToType ==
    /\ pc = "call" /\ call.fn = "mapAWSServiceToType"
    /\ Return(mapAWSServiceToType(call.service))

CallMapAzureServiceToType ==
    /\ pc = "call" /\ call.fn = "mapAzureServiceToType"
    /\ Return(mapAzureServiceToType(call.service))

CallMapGCPServiceToType ==
    /\ pc = "call" /\ call.fn = "mapGCPServiceToType"
    /\ Return(mapGCPServiceToType(call.service))

\* ParseBillingFile on a file and on the file with another resourceType
\* column
CallParseBillingFileRedeclared ==
    /\ pc = "call" /\ call.fn = "ParseBillingFile redeclared"
    /\ Return([ of           |-> ParseBillingFile(call.file, call.cloudProvider),
                ofRedeclared |-> ParseBillingFile(call.redeclared, call.cloudProvider) ])

\* what main does next with the records of a successful parse
\* (main.go, "Normalize billing data to instance-hours")
NormalizeParsed ==
    /\ pc = "ret" /\ call.fn = "ParseBillingFile"
    /\ ret.err = "nil" /\ Len(ret.records) > 0
    /\ ret' = [ records |-> ret.records, err |-> ret.err,
                normalized |-> AggregateByType(ret.records, GetBillingPeriod(ret.records)) ]
    /\ pc' = "normalized"
    /\ UNCHANGED <<mainVars, call>>

NextParser ==
    \/ CallParseBillingFile
    \/ CallMapAWSServiceToType
    \/ CallMapAzureServiceToType
    \/ CallMapGCPServiceToType
    \/ CallParseBillingFileRedeclared
    \/ NormalizeParsed

SpecParser == InitParser /\ [][NextParser]_vars

---------------------------------------------------------------------------
(* Harness of the normalizer. *)

\* a billing record of the given type and instance-hours (a whole number)
RecordOf(resourceType, hours) ==
    [ ServiceName   |-> sv_EC2,
      ResourceType  |-> resourceType,
      ResourceID    |-> id_i1,
      InstanceHours |-> FInt(hours),
      TimePeriod    |-> p_2024_01,
      Region        |-> r_us_east_1,
      Project       |-> "aws-default",
      Metadata      |-> EmptyMap ]

NormRecords == { RecordOf(t, h) : t \in {"VM", "Database", "Other"}, h \in {0, 360, 744} }
NormPeriods == { p_2024_01, p_2024_02, p_2024_04, p_empty, p_202401 }

MonthPeriods == { Period(y, mm) : y \in Years, mm \in 1..12 }
OddPeriods == { p_2024, p_empty, p_24_01, p_202401, p_2024_0,
                p_2024_13, p_2024_00, p_2024_1_5,
                p_2024_01_15, p_2024_02_15,
                p_2024_13_01, p_2024_ab, p_2024_1_05, p_Jan_2024 }

\* one call of a function of the normalizer
InitNormalizer ==
    /\ pc = "call" /\ ret = NoRet /\ MainIdle
    /\ \/ \E f \in {"NormalizeToInstanceHours", "AggregateByType"},
             p \in NormPeriods, n \in 0..MaxRecords :
             \E rs \in SeqsOf(NormRecords, n) :
                call = [fn |-> f, records |-> rs, billingPeriod |-> p]
       \/ \E p \in MonthPeriods \cup OddPeriods :
             call = [fn |-> "getDaysInPeriod", period |-> p]
       \/ \E p \in { q \in MonthPeriods \cup OddPeriods : Len(q) >= 7 } :
             call = [fn |-> "getDaysInPeriod of prefix", period |-> p,
                     prefix |-> SubSeq(p, 1, 7)]

CallNormalizeToInstanceHours ==
    /\ pc = "call" /\ call.fn = "NormalizeToInstanceHours"
    /\ Return(NormalizeToInstanceHours(call.records, call.billingPeriod))

CallAggregateByType ==
    /\ pc = "call" /\ call.fn = "AggregateByType"
    /\ Return(AggregateByType(call.records, call.billingPeriod))

CallGetDaysInPeriod ==
    /\ pc = "call" /\ call.fn = "getDaysInPeriod"
    /\ Return(getDaysInPeriod(call.period))

\* getDaysInPeriod on a period and on its first seven characters
CallGetDaysInPeriodOfPrefix ==
    /\ pc = "call" /\ call.fn = "getDaysInPeriod of prefix"
    /\ Return([ ofPeriod |-> getDaysInPeriod(call.period),
                ofPrefix |-> getDaysInPeriod(call.prefix) ])

NextNormalizer ==
    \/ CallGetDaysInPeriodOfPrefix
    \/ CallNormalizeToInstanceHours
    \/ CallAggregateByType
    \/ CallGetDaysInPeriod

SpecNormalizer == InitNormalizer /\ [][NextNormalizer]_vars

---------------------------------------------------------------------------
(* Harness of the normalizer on float64 values bit for bit: the same       *)
(* records in two orders, and one record per type holding the type's sum.  *)

\* instance-hours as ParseFloat reads "0.1", "0.2", "0.3", "1" and "744"
Hours64 == { Float64(1, 10), Float64(2, 10), Float64(3, 10),
             Float64(1, 1), Float64(744, 1) }

\* a billing record of the given type and instance-hours
RecordWith(resourceType, hours) ==
    [ ServiceName   |-> sv_EC2,
      ResourceType  |-> resourceType,
      ResourceID    |-> id_i1,
      InstanceHours |-> hours,
      TimePeriod    |-> p_2024_01,
      Region        |-> r_us_east_1,
      Project       |-> "aws-default",
      Metadata      |-> EmptyMap ]

\* records of the type looked at, and records of another type
AddRecords ==
    { RecordWith("VM", h) : h \in Hours64 }
        \cup { RecordWith("Database", h) : h \in {Float64(1, 10), Float64(1, 1)} }

Reorderings(n) ==
    { f \in [1..n -> 1..n] : \A i, j \in 1..n : f[i] = f[j] => i = j }

\* the indices of the records of a type
OfType(records, t) == { i \in 1..Len(records) : records[i].ResourceType = t }

RECURSIVE ExactHours(_, _)
\* the sum of the instance-hours of the records in I, not rounded
ExactHours(records, I) ==
    IF I = {} THEN Zero64
    ELSE LET i == CHOOSE j \in I : TRUE
         IN  ExactAdd(records[i].InstanceHours, ExactHours(records, I \ {i}))

\* one record for each type of the records, whose instance-hours are the
\* float64 nearest to the sum of the type's instance-hours
SummedRecords(records) ==
    LET types == { records[i].ResourceType : i \in 1..Len(records) }
    IN  [ t \in types |->
            LET sum == ExactHours(records, OfType(records, t))
            IN  RecordWith(t, RoundQuotient(sum.m, 1, sum.e)) ]

InitAdditivity ==
    /\ pc = "call" /\ ret = NoRet /\ MainIdle
    /\ \E n \in 1..MaxRecords, p \in {p_2024_01, p_2024_02} :
          \E rs \in SeqsOf(AddRecords, n), f \in Reorderings(n) :
             call = [ fn            |-> "NormalizeToInstanceHours reordered",
                      records       |-> rs,
                      reordered     |-> [i \in 1..n |-> rs[f[i]]],
                      billingPeriod |-> p ]

\* NormalizeToInstanceHours on the records, on the records in the other
\* order, and on the single record of each type
CallNormalizeReordered ==
    /\ pc = "call" /\ call.fn = "NormalizeToInstanceHours reordered"
    /\ LET single == SummedRecords(call.records)
       IN  Return([ ofRecords   |-> NormalizeToInstanceHours(call.records,
                                                             call.billingPeriod),
                    ofReordered |-> NormalizeToInstanceHours(call.reordered,
                                                             call.billingPeriod),
                    ofSingle    |-> [ t \in DOMAIN single |->
                                        NormalizeToInstanceHours(<< single[t] >>,
                                            call.billingPeriod)[t] ] ])

NextAdditivity == CallNormalizeReordered

SpecAdditivity == InitAdditivity /\ [][NextAdditivity]_vars

---------------------------------------------------------------------------
(* Harness of the converter. *)

ConverterTypes == { "VM", "Database", "Container", "Function", "Other" }
ConverterAverages ==
    { Rat(k, 4) : k \in (-MaxQuarters)..MaxQuarters }
    \cup { Rat(476, 100), Rat(210, 100), Rat(720, 744), Rat(-5, 2) }
RuleTables == { RulesDefault, RulesVmDb, RulesNone, RulesSigned }

InitConverter ==
    /\ pc = "call" /\ ret = NoRet /\ MainIdle
    /\ \/ \E t \in ConverterTypes, a \in ConverterAverages, r \in RuleTables :
             call = [fn |-> "ConvertToSyntheticUnits", assetType |-> t,
                     avgInstancesPerHour |-> a, rules |-> r]
       \/ \E t \in ConverterTypes, a, b \in ConverterAverages, r \in RuleTables :
             call = [fn |-> "ConvertToSyntheticUnits twice", assetType |-> t,
                     a |-> a, b |-> b, rules |-> r]

CallConvertToSyntheticUnits ==
    /\ pc = "call" /\ call.fn = "ConvertToSyntheticUnits"
    /\ Return(ConvertToSyntheticUnits(call.assetType, call.avgInstancesPerHour, call.rules))

\* two calls with the same type and rules, for the averages a and b
CallConvertToSyntheticUnitsTwice ==
    /\ pc = "call" /\ call.fn = "ConvertToSyntheticUnits twice"
    /\ Return([ ofA |-> ConvertToSyntheticUnits(call.assetType, call.a, call.rules),
                ofB |-> ConvertToSyntheticUnits(call.assetType, call.b, call.rules) ])

NextConverter ==
    \/ CallConvertToSyntheticUnits
    \/ CallConvertToSyntheticUnitsTwice

SpecConverter == InitConverter /\ [][NextConverter]_vars

---------------------------------------------------------------------------
(* Harness of the enrichment. *)

Asset(type) ==
    [ ID |-> id_i1, Type |-> type, Name |-> id_i1, Cloud |-> "AWS",
      Project |-> "aws-default", CurrentInstanceCount |-> 1,
      Metadata |-> EmptyMap, SourceType |-> "inventory" ]

EnrichTypes == { "VM", "Database", "Cache" }
EnrichAverages == { Rat(-1, 2), FInt(0), Rat(3, 2) }

\* enriched rows as AggregateForOutput may be handed them: any flag with
\* any count and average
EnrichedRows ==
    [ AssetType             : {"VM", "Database"},
      CurrentlyDeployed     : {0, 2},
      AverageInstancesPerHr : {FInt(0), Rat(3, 2)},
      HasEphemeralUsage     : BOOLEAN,
      CalculatedUnits       : {0, 8} ]

\* one call of EnrichAssets: an inventory, a map from some of the types to
\* an average, a rule table; or one call of AggregateForOutput
InitEnrichment ==
    /\ pc = "call" /\ ret = NoRet /\ MainIdle
    /\ \/ \E n \in 0..MaxAssets, ks \in SUBSET EnrichTypes,
             r \in {RulesDefault, RulesNone, RulesSigned} :
             \E as \in SeqsOf({ Asset(t) : t \in EnrichTypes }, n),
                m \in [ks -> EnrichAverages] :
                call = [fn |-> "EnrichAssets", assets |-> as,
                        avgInstancesByType |-> m, rules |-> r]
       \/ \E n \in 0..MaxAssets :
             \E es \in SeqsOf(EnrichedRows, n) :
                call = [fn |-> "AggregateForOutput", enriched |-> es]

CallEnrichAssets ==
    /\ pc = "call" /\ call.fn = "EnrichAssets"
    /\ \E enriched \in EnrichAssets(call.assets, call.avgInstancesByType, call.rules) :
          Return(enriched)

CallAggregateForOutput ==
    /\ pc = "call" /\ call.fn = "AggregateForOutput"
    /\ Return(AggregateForOutput(call.enriched))

NextEnrichment == CallEnrichAssets \/ CallAggregateForOutput

SpecEnrichment == InitEnrichment /\ [][NextEnrichment]_vars

---------------------------------------------------------------------------
(* Harness of the output package. *)

AggregatedOutput(assetType, current, ephemeral, avg, units) ==
    [ AssetType           |-> assetType,
      CurrentCount        |-> current,
      EphemeralCount      |-> ephemeral,
      AvgInstancesPerHour |-> avg,
      SyntheticUnits      |-> units ]

\* report rows: counts that differ from row to row, averages that print
\* as 0.00, 0.12, 1.50 and 4.76, a type that occurs twice
ReportRows ==
    { AggregatedOutput("VM", 0, 1, Rat(3, 2), 8),
      AggregatedOutput("VM", 2, 1, Rat(476, 100), 24),
      AggregatedOutput("Database", 3, 0, FInt(0), 0),
      AggregatedOutput("Container", 0, 1, Rat(1, 250), 0),
      AggregatedOutput("Function", 1, 1, Rat(1, 250), 0),
      AggregatedOutput("Other", 0, 1, Rat(1, 8), 1) }

\* one call of a function of the output package
InitOutput ==
    /\ pc = "call" /\ ret = NoRet /\ MainIdle
    /\ \E f \in {"PrintSummaryTable", "WriteExcel"}, n \in 0..MaxReportRows :
          \E rows \in SeqsOf(ReportRows, n) :
             call = [fn |-> f, assets |-> rows]

CallPrintSummaryTable ==
    /\ pc = "call" /\ call.fn = "PrintSummaryTable"
    /\ Return(PrintSummaryTable(call.assets))

\* SaveAs succeeds: nil, and the file is on disk
CallWriteExcel ==
    /\ pc = "call" /\ call.fn = "WriteExcel"
    /\ Return([err |-> "nil", file |-> WriteExcel(call.assets)])

\* SaveAs fails: the error, and no file
CallWriteExcelFails ==
    /\ pc = "call" /\ call.fn = "WriteExcel"
    /\ Return([err |-> "failed to save Excel file", file |-> NoSheet])

NextOutput ==
    \/ CallPrintSummaryTable
    \/ CallWriteExcel
    \/ CallWriteExcelFails

SpecOutput == InitOutput /\ [][NextOutput]_vars

---------------------------------------------------------------------------
(* Properties. *)

HasEvent(events, name) == \E i \in 1..Len(events) : events[i].ev = name

\* the sum of the whole-number instance-hours of the records at indices I
RECURSIVE TotalHours(_, _)
TotalHours(records, I) ==
    IF I = {} THEN 0
    ELSE LET i == CHOOSE j \in I : TRUE
         IN  records[i].InstanceHours.n + TotalHours(records, I \ {i})

ReturnedFrom(fns) == pc = "ret" /\ call.fn \in fns

(* C1: NormalizeToInstanceHours and AggregateByType return a map whose     *)
(* keys are exactly the resource types occurring in the records, and whose *)
(* value for a type is the sum of the instance-hours of the records of     *)
(* that type divided by days-in-period x 24.                               *)
C1_NormalizedIsTotalOverHours ==
    ReturnedFrom({"NormalizeToInstanceHours", "AggregateByType"}) =>
        LET records == call.records
            types   == { records[i].ResourceType : i \in 1..Len(records) }
            hours   == getDaysInPeriod(call.billingPeriod) * 24
        IN  /\ DOMAIN ret = types
            /\ \A t \in types :
                  /\ IsFinite(ret[t])
                  /\ ret[t].n * hours =
                       ret[t].d * TotalHours(records,
                                    { i \in 1..Len(records) : records[i].ResourceType = t })

\* two VM records and a Database record over January: 1104/744 and 744/744
C1_Witness ==
    /\ ReturnedFrom({"AggregateByType"})
    /\ call.records = << RecordOf("VM", 360), RecordOf("Database", 744), RecordOf("VM", 744) >>
    /\ call.billingPeriod = p_2024_01
    /\ DOMAIN ret = {"VM", "Database"}
    /\ ret["VM"] = Rat(1104, 744)
    /\ ret["Database"] = FInt(1)

(* C2: with a rule for the type, ConvertToSyntheticUnits returns the       *)
(* integer nearest to average x unitsPerInstance, a tie going to the       *)
(* integer farther from zero; without a rule it returns 0.  4.76 x 5 gives *)
(* 24, 3.00 x 5 gives 15, 2.10 x 2 gives 4, and 7.5, 2.5, -2.5 give 8, 3,  *)
(* -3.                                                                     *)
C2_ScoreRoundsHalfAwayFromZero ==
    ReturnedFrom({"ConvertToSyntheticUnits"}) =>
        LET rules == call.rules.Rules
            a     == call.avgInstancesPerHour
            isDefault(t, avg) ==
                call.rules = RulesDefault /\ call.assetType = t /\ a = avg
        IN  /\ IF call.assetType \in DOMAIN rules
               THEN LET num   == a.n * rules[call.assetType].UnitsPerInstance
                        dist2 == 2 * Abs(ret * a.d - num)
                    IN  \/ dist2 < a.d
                        \/ dist2 = a.d /\ Abs(ret * a.d) > Abs(num)
               ELSE ret = 0
            /\ isDefault("VM", Rat(476, 100)) => ret = 24
            /\ isDefault("Database", FInt(3)) => ret = 15
            /\ isDefault("Container", Rat(210, 100)) => ret = 4
            /\ isDefault("VM", Rat(3, 2)) => ret = 8
            /\ isDefault("VM", Rat(1, 2)) => ret = 3
            /\ isDefault("VM", Rat(-1, 2)) => ret = -3

\* the negative tie -2.5 has been scored -3
C2_Witness ==
    /\ ReturnedFrom({"ConvertToSyntheticUnits"})
    /\ call.rules = RulesDefault /\ call.assetType = "VM"
    /\ call.avgInstancesPerHour = Rat(-1, 2)
    /\ ret = -3

InventoryTypes(assets) == { assets[i].Type : i \in 1..Len(assets) }

(* C3: every resource type of the inventory or of the average map is the   *)
(* type of exactly one row returned by EnrichAssets, no row has another    *)
(* type, and the number of rows is the size of the union of the two key    *)
(* sets.                                                                   *)
C3_OneRowPerType ==
    ReturnedFrom({"EnrichAssets"}) =>
        LET keys == InventoryTypes(call.assets) \cup DOMAIN call.avgInstancesByType
        IN  /\ \A t \in keys :
                  Cardinality({ i \in 1..Len(ret) : ret[i].AssetType = t }) = 1
            /\ \A i \in 1..Len(ret) : ret[i].AssetType \in keys
            /\ Len(ret) = Cardinality(keys)

\* a type in both maps, one only in the inventory, one only in the averages
C3_Witness ==
    /\ ReturnedFrom({"EnrichAssets"})
    /\ InventoryTypes(call.assets) = {"VM", "Cache"}
    /\ DOMAIN call.avgInstancesByType = {"VM", "Database"}
    /\ Len(ret) = 3

(* C4: in every row returned by EnrichAssets the ephemeral flag is true    *)
(* exactly when the row's average is strictly greater than 0 and the row's *)
(* current count, the number of inventory assets of its type, is 0.        *)
C4_EphemeralIffUsedAndAbsent ==
    ReturnedFrom({"EnrichAssets"}) =>
        \A i \in 1..Len(ret) :
            /\ ret[i].CurrentlyDeployed =
                  Cardinality({ j \in 1..Len(call.assets) :
                                  call.assets[j].Type = ret[i].AssetType })
            /\ ret[i].HasEphemeralUsage <=>
                  ( /\ ret[i].AverageInstancesPerHr.n > 0
                    /\ ret[i].CurrentlyDeployed = 0 )

\* an ephemeral row, a row with usage and inventory, a row with average 0
\* and no inventory, and none of them flagged but the first
C4_Witness ==
    /\ ReturnedFrom({"EnrichAssets"})
    /\ \E i, j, k \in 1..Len(ret) :
          /\ ret[i].HasEphemeralUsage
          /\ ret[i].AverageInstancesPerHr = Rat(3, 2) /\ ret[i].CurrentlyDeployed = 0
          /\ ~ret[j].HasEphemeralUsage
          /\ ret[j].AverageInstancesPerHr = Rat(3, 2) /\ ret[j].CurrentlyDeployed = 1
          /\ ~ret[k].HasEphemeralUsage
          /\ ret[k].AverageInstancesPerHr = FInt(0) /\ ret[k].CurrentlyDeployed = 0

\* period is "YYYY-MM" with MM in 01..12
IsYearMonth(period) ==
    /\ Len(period) = 7
    /\ \A i \in {1, 2, 3, 4, 6, 7} : IsDigit(period[i])
    /\ period[5] = "-"
    /\ 10 * DigitVal(period[6]) + DigitVal(period[7]) \in 1..12

(* C5: for "YYYY-MM" with MM in 01..12 getDaysInPeriod returns 31 for the  *)
(* months 1, 3, 5, 7, 8, 10, 12, 30 for 4, 6, 9, 11, and 28 for month 2 in *)
(* every year, leap or not.                                                *)
C5_DaysOfMonth ==
    (ReturnedFrom({"getDaysInPeriod"}) /\ IsYearMonth(call.period)) =>
        LET mm == 10 * DigitVal(call.period[6]) + DigitVal(call.period[7])
        IN  ret = IF mm = 2 THEN 28
                  ELSE IF mm \in {4, 6, 9, 11} THEN 30
                  ELSE 31

\* February of the leap year 2024 has been given 28 days
C5_Witness ==
    /\ ReturnedFrom({"getDaysInPeriod"})
    /\ call.period = p_2024_02
    /\ ret = 28

\* main has got past the three provider blocks and the check after them
ProvidersProcessed ==
    /\ HasEvent(stdout, "banner")
    /\ pc \notin {"start", "aws", "azure", "gcp", "check"}

(* C6: when the three providers have been processed and no billing record  *)
(* has been loaded, the run has ended in failure (exit status 1, a message *)
(* on standard error) and has neither normalized, enriched, printed the    *)
(* table nor written the Excel file.                                       *)
C6_NoRecordsIsFatal ==
    (ProvidersProcessed /\ Len(allBillingRecords) = 0) =>
        /\ pc = "fatal" /\ exitCode = 1
        /\ HasEvent(stderr, "fatal")
        /\ \A name \in {"normalizing", "enriched", "aggregating", "table header",
                        "generating"} : ~HasEvent(stdout, name)
        /\ avgInstancesByType = EmptyMap
        /\ enrichedAssets = <<>>
        /\ ~excelFile.written

\* the run has failed after one provider was left out of the configuration,
\* one failed to parse and one gave a file with no data row
C6_Witness ==
    /\ ProvidersProcessed /\ pc = "fatal"
    /\ cfg.Billing.GCP.FilePath = ""
    /\ HasEvent(stderr, "warning")
    /\ HasEvent(stdout, "loaded")
    /\ Len(allBillingRecords) = 0

\* the records a provider block of main adds to allBillingRecords
Contribution(filePath, file, provider) ==
    IF filePath = "" \/ ParseBillingFile(file, provider).err # "nil"
    THEN <<>>
    ELSE ParseBillingFile(file, provider).records

(* C7: a provider whose file fails to parse adds no record and does not    *)
(* end the run: after each provider block the record list is the records   *)
(* of the providers processed so far that parsed, in processing order, and *)
(* the process has not exited.                                             *)
C7_FailedProviderIsOmitted ==
    HasEvent(stdout, "banner") =>
        LET aws   == Contribution(cfg.Billing.AWS.FilePath, billingFiles.aws, "aws")
            azure == Contribution(cfg.Billing.Azure.FilePath, billingFiles.azure, "azure")
            gcp   == Contribution(cfg.Billing.GCP.FilePath, billingFiles.gcp, "gcp")
        IN  /\ pc = "aws" => allBillingRecords = <<>>
            /\ pc = "azure" => allBillingRecords = aws
            /\ pc = "gcp" => allBillingRecords = aws \o azure
            /\ pc \notin {"aws", "azure", "gcp"} => allBillingRecords = aws \o azure \o gcp
            /\ pc \in {"aws", "azure", "gcp", "check"} => exitCode = -1

\* Azure's file failed to parse; the AWS and GCP records are all there
C7_Witness ==
    /\ pc = "check" /\ exitCode = -1
    /\ cfg.Billing.Azure.FilePath # ""
    /\ ParseBillingFile(billingFiles.azure, "azure").err # "nil"
    /\ HasEvent(stderr, "warning")
    /\ Len(ParseBillingFile(billingFiles.aws, "aws").records) = 2
    /\ Len(ParseBillingFile(billingFiles.gcp, "gcp").records) = 2
    /\ Len(allBillingRecords) = 4
    /\ allBillingRecords[1].Project = "aws-default"
    /\ allBillingRecords[4].Project = "gcp-default"

\* ParseBillingFile has returned for a file that opens and holds well-formed
\* CSV, under one of the three provider tags
ParsedReadableFile ==
    /\ pc \in {"ret", "normalized"} /\ call.fn = "ParseBillingFile"
    /\ call.cloudProvider \in {"aws", "azure", "gcp"}
    /\ call.file.exists /\ ~call.file.badQuote

\* the rows after the first that have at least six fields, and the k-th
\* of them in file order
FullRows(rows) == { i \in 2..Len(rows) : Len(rows[i]) >= 6 }
NthFullRow(rows, k) ==
    CHOOSE i \in FullRows(rows) : Cardinality({ j \in FullRows(rows) : j <= i }) = k

(* C8: parsing a billing CSV never fails because of a row with fewer than  *)
(* six fields; the first row and the short rows give no record, and each   *)
(* other row gives exactly one record, in file order.                      *)
C8_ShortRowsAreSkipped ==
    ParsedReadableFile =>
        LET rows == call.file.rows
        IN  /\ ret.err = "nil"
            /\ Len(ret.records) = Cardinality(FullRows(rows))
            /\ \A k \in 1..Len(ret.records) :
                  LET row == rows[NthFullRow(rows, k)]
                  IN  /\ ret.records[k].ServiceName = row[1]
                      /\ ret.records[k].ResourceID = row[3]
                      /\ ret.records[k].TimePeriod = row[5]
                      /\ ret.records[k].Region = row[6]

\* every row of the file has as many fields as its first row
SameFieldCount(rows) == \A i \in 1..Len(rows) : Len(rows[i]) = Len(rows[1])

(* C9: a row with at least six fields whose instanceHours field            *)
(* strconv.ParseFloat rejects still gives a record, with instance-hours 0, *)
(* the parse does not fail, and the record's type is a key of the          *)
(* normalized map, to whose total it adds 0.                               *)
C9_UnparsedHoursBecomeZero ==
    (ParsedReadableFile /\ SameFieldCount(call.file.rows)) =>
        LET rows == call.file.rows
        IN  /\ ret.err = "nil"
            /\ Len(ret.records) = Cardinality(FullRows(rows))
            /\ \A k \in 1..Len(ret.records) :
                  ParseFloat(rows[NthFullRow(rows, k)][4]).err # "nil" =>
                      /\ ret.records[k].InstanceHours = FInt(0)
                      /\ pc = "normalized" =>
                            ret.records[k].ResourceType \in DOMAIN ret.normalized

ResourceTypes == {"VM", "Database", "Container", "Storage", "Function", "Other"}

\* the keywords of each provider, by the type they stand for
ProviderKeywords(provider) ==
    IF provider = "aws"
    THEN [ VM |-> {kw_ec2}, Database |-> {kw_rds}, Function |-> {kw_lambda},
           Container |-> {kw_ecs}, Storage |-> {kw_s3} ]
    ELSE IF provider = "azure"
    THEN [ VM |-> {kw_virtual_machine, kw_vm}, Database |-> {kw_sql},
           Function |-> {kw_function}, Container |-> {kw_container},
           Storage |-> {kw_storage} ]
    ELSE [ VM |-> {kw_compute_engine}, Database |-> {kw_cloud_sql},
           Function |-> {kw_cloud_functions}, Container |-> {kw_gke},
           Storage |-> {kw_cloud_storage} ]

\* characters equal up to the case of a letter
EqFold(a, b) ==
    \/ a = b
    \/ \E i \in 1..26 : {a, b} = {UpperChars[i], LowerChars[i]}

\* kw occurs in s, the case of letters ignored
MatchesFold(s, kw) ==
    \E off \in 0..(Len(s) - Len(kw)) :
        \A j \in 1..Len(kw) : EqFold(s[off + j], kw[j])

\* resourceType is a type that the provider's keywords give the service
MappedByKeyword(provider, service, resourceType) ==
    LET kws == ProviderKeywords(provider)
    IN  /\ resourceType \in ResourceTypes
        /\ resourceType # "Other" =>
              \E kw \in kws[resourceType] : MatchesFold(service, kw)
        /\ resourceType = "Other" <=>
              \A t \in DOMAIN kws : \A kw \in kws[t] : ~MatchesFold(service, kw)

(* C10: the resource type of every parsed record, and the result of each   *)
(* provider's mapping function, is one of VM, Database, Container,         *)
(* Storage, Function, Other; it is a type one of whose keywords occurs in  *)
(* the service name, case ignored, and it is Other exactly when no keyword *)
(* of the provider occurs in it.                                           *)
C10_TypeByKeyword ==
    /\ ReturnedFrom({"mapAWSServiceToType"}) => MappedByKeyword("aws", call.service, ret)
    /\ ReturnedFrom({"mapAzureServiceToType"}) => MappedByKeyword("azure", call.service, ret)
    /\ ReturnedFrom({"mapGCPServiceToType"}) => MappedByKeyword("gcp", call.service, ret)
    /\ (ParsedReadableFile /\ ret.err = "nil") =>
          \A k \in 1..Len(ret.records) :
              MappedByKeyword(call.cloudProvider, ret.records[k].ServiceName,
                              ret.records[k].ResourceType)

\* an AWS file parsed into a VM record for "Amazon Ec2" and an Other record
\* for "Glue"
C10_Witness ==
    /\ ParsedReadableFile /\ ret.err = "nil"
    /\ call.cloudProvider = "aws"
    /\ Len(ret.records) = 2
    /\ ret.records[1].ServiceName = sv_Amazon_Ec2 /\ ret.records[1].ResourceType = "VM"
    /\ ret.records[2].ServiceName = sv_Glue /\ ret.records[2].ResourceType = "Other"

(* C11: ParseBillingFile returns records without an error or an error      *)
(* without records, never both.  A provider tag other than "aws", "azure", *)
(* "gcp" gives the unknown-provider error whatever the file is; a file     *)
(* that cannot be opened, or whose CSV the reader rejects, gives an error  *)
(* and no record of the rows read before the fault.                        *)
C11_RecordsOrError ==
    ReturnedFrom({"ParseBillingFile"}) =>
        LET known    == call.cloudProvider \in {"aws", "azure", "gcp"}
            readable == /\ call.file.exists /\ ~call.file.badQuote
                        /\ SameFieldCount(call.file.rows)
        IN  /\ ret.err # "nil" => ret.records = <<>>
            /\ ~known => ret.err = "unknown cloud provider"
            /\ (known /\ ~readable) => ret.err \notin {"nil", "unknown cloud provider"}
            /\ (known /\ readable) => ret.err = "nil"

\* the tag "oci" with a file that an AWS parse would read
C11_Witness ==
    /\ ReturnedFrom({"ParseBillingFile"})
    /\ call.cloudProvider = "oci" /\ call.file = AwsReadmeFile
    /\ ret.err = "unknown cloud provider" /\ ret.records = <<>>

\* the exact sum of the instance-hours of the records at indices I
RECURSIVE HoursOf(_, _)
HoursOf(records, I) ==
    IF I = {} THEN FInt(0)
    ELSE LET i == CHOOSE j \in I : TRUE
         IN  FAdd(records[i].InstanceHours, HoursOf(records, I \ {i}))

\* main has normalized
Normalized == HasEvent(stdout, "normalizing")

(* C12: the period main normalizes with is the period field of the first   *)
(* record of the first provider, in the order AWS, Azure, GCP, that gave   *)
(* at least one record; the hours of that one period divide the total of   *)
(* every resource type, records with another period field included.        *)
C12_PeriodOfFirstRecord ==
    Normalized =>
        LET aws   == Contribution(cfg.Billing.AWS.FilePath, billingFiles.aws, "aws")
            azure == Contribution(cfg.Billing.Azure.FilePath, billingFiles.azure, "azure")
            gcp   == Contribution(cfg.Billing.GCP.FilePath, billingFiles.gcp, "gcp")
            first == IF Len(aws) > 0 THEN aws[1]
                     ELSE IF Len(azure) > 0 THEN azure[1] ELSE gcp[1]
            all   == aws \o azure \o gcp
            hours == getDaysInPeriod(first.TimePeriod) * 24
        IN  /\ billingPeriod = first.TimePeriod
            /\ billingPeriod = allBillingRecords[1].TimePeriod
            /\ DOMAIN avgInstancesByType = { all[i].ResourceType : i \in 1..Len(all) }
            /\ \A t \in DOMAIN avgInstancesByType :
                  LET total == HoursOf(all, { i \in 1..Len(all) : all[i].ResourceType = t })
                  IN  avgInstancesByType[t].n * hours * total.d
                         = total.n * avgInstancesByType[t].d

\* AWS gave no record, Azure's first record is of 2024-02, and GCP's records
\* of 2024-01 are divided by the 672 hours of 2024-02 like the others
C12_Witness ==
    /\ Normalized
    /\ cfg.Billing.AWS.FilePath # ""
    /\ Len(Contribution(cfg.Billing.AWS.FilePath, billingFiles.aws, "aws")) = 0
    /\ allBillingRecords[1].Project = "azure-default"
    /\ billingPeriod = p_2024_02
    /\ \E i \in 1..Len(allBillingRecords) :
          /\ allBillingRecords[i].Project = "gcp-default"
          /\ allBillingRecords[i].TimePeriod = p_2024_01
    /\ avgInstancesByType["VM"] = Rat(744 + 744, 672)

(* C13: two runs on the same input files and configuration hand the same   *)
(* sequence of rows to the console table and to the spreadsheet writer.    *)
C13_SameRowsTwice ==
    (ret.fn = "main" /\ pc \in {"print", "excel", "examples", "done"}) =>
        aggregated = ret.aggregated

(* C15: for a type whose rule has a positive multiplier the score does not *)
(* decrease with the average: a <= b gives score(a) <= score(b).           *)
C15_ScoreIsMonotone ==
    ReturnedFrom({"ConvertToSyntheticUnits twice"}) =>
        LET rules == call.rules.Rules
        IN  ( /\ call.assetType \in DOMAIN rules
              /\ rules[call.assetType].UnitsPerInstance > 0
              /\ call.a.n * call.b.d <= call.b.n * call.a.d )
            => ret.ofA <= ret.ofB

\* a negative and a positive average under the multiplier 5, scored -3 and 3
C15_Witness ==
    /\ ReturnedFrom({"ConvertToSyntheticUnits twice"})
    /\ call.rules = RulesDefault /\ call.assetType = "VM"
    /\ call.a = Rat(-1, 2) /\ call.b = Rat(1, 2)
    /\ ret.ofA = -3 /\ ret.ofB = 3

\* the run reads the README's AWS file under the rules {VM: 5, Database: 5}
\* and no other provider gives a record
ReadmeScenario ==
    /\ HasEvent(stdout, "banner")
    /\ cfg.Billing.AWS.FilePath # "" /\ billingFiles.aws = AwsReadmeFile
    /\ cfg.SyntheticUnits = RulesVmDb
    /\ Contribution(cfg.Billing.Azure.FilePath, billingFiles.azure, "azure") = <<>>
    /\ Contribution(cfg.Billing.GCP.FilePath, billingFiles.gcp, "gcp") = <<>>

(* C16: the AWS rows (EC2, VM, i-1, 720, 2024-01, us-east-1) and           *)
(* (RDS, Database, db-1, 744, 2024-01, us-east-1) under the rules          *)
(* {VM: 5, Database: 5} give period 2024-01 with 744 hours, the averages   *)
(* 720/744 for VM and 1 for Database, the score 5 for each, and these two  *)
(* rows only.                                                              *)
C16_ReadmeExample ==
    (ReadmeScenario /\ HasEvent(stdout, "aggregating")) =>
        /\ billingPeriod = p_2024_01
        /\ getDaysInPeriod(billingPeriod) * 24 = 744
        /\ avgInstancesByType = [t \in {"VM", "Database"} |->
                                    IF t = "VM" THEN Rat(720, 744) ELSE FInt(1)]
        /\ Len(aggregated) = 2
        /\ { << aggregated[i].AssetType, aggregated[i].AvgInstancesPerHour,
                aggregated[i].SyntheticUnits >> : i \in 1..2 }
             = { << "VM", Rat(720, 744), 5 >>, << "Database", FInt(1), 5 >> }

\* a complete run of the scenario, with the Database row first
C16_Witness ==
    /\ ReadmeScenario /\ pc = "done"
    /\ aggregated[1].AssetType = "Database" /\ aggregated[1].SyntheticUnits = 5
    /\ aggregated[2].AssetType = "VM" /\ aggregated[2].SyntheticUnits = 5

\* the provider whose parser tagged the record
ProviderOf(record) ==
    IF record.Project = "aws-default" THEN "aws"
    ELSE IF record.Project = "azure-default" THEN "azure" ELSE "gcp"

\* no keyword of the record's provider occurs in its service name
Unmapped(record) ==
    LET kws == ProviderKeywords(ProviderOf(record))
    IN  \A t \in DOMAIN kws : \A kw \in kws[t] : ~MatchesFold(record.ServiceName, kw)

(* C17: a record whose service name has none of its provider's keywords is *)
(* of type Other; once main has enriched, there is one row for Other, and  *)
(* its score is 0 when the configuration has no rule for Other.            *)
C17_UnmappedScoresZero ==
    \A i \in 1..Len(allBillingRecords) :
        Unmapped(allBillingRecords[i]) =>
            /\ allBillingRecords[i].ResourceType = "Other"
            /\ HasEvent(stdout, "enriched") =>
                  /\ Cardinality({ k \in 1..Len(enrichedAssets) :
                                     enrichedAssets[k].AssetType = "Other" }) = 1
                  /\ \A k \in 1..Len(enrichedAssets) :
                        ( /\ enrichedAssets[k].AssetType = "Other"
                          /\ "Other" \notin DOMAIN cfg.SyntheticUnits.Rules )
                        => enrichedAssets[k].CalculatedUnits = 0

\* an Other row with an average above 1 and the score 0
C17_Witness ==
    /\ HasEvent(stdout, "enriched")
    /\ \E i \in 1..Len(allBillingRecords) : Unmapped(allBillingRecords[i])
    /\ \E k \in 1..Len(enrichedAssets) :
          /\ enrichedAssets[k].AssetType = "Other"
          /\ enrichedAssets[k].AverageInstancesPerHr.n > enrichedAssets[k].AverageInstancesPerHr.d
          /\ enrichedAssets[k].CalculatedUnits = 0

(* C18: main's inventory is always empty, so in every run that reaches the *)
(* report every row has current count 0 and every row with a positive      *)
(* average is flagged ephemeral and has ephemeral count 1.                 *)
C18_BilledTypesAreEphemeral ==
    /\ allAssets = <<>>
    /\ HasEvent(stdout, "enriched") =>
          \A k \in 1..Len(enrichedAssets) :
              /\ enrichedAssets[k].CurrentlyDeployed = 0
              /\ enrichedAssets[k].AverageInstancesPerHr.n > 0
                    => enrichedAssets[k].HasEphemeralUsage
    /\ HasEvent(stdout, "aggregating") =>
          \A i \in 1..Len(aggregated) :
              /\ aggregated[i].CurrentCount = 0
              /\ aggregated[i].AvgInstancesPerHour.n > 0
                    => aggregated[i].EphemeralCount = 1

\* a report with a row of positive average, counted ephemeral, and a row of
\* average 0, not counted
C18_Witness ==
    /\ pc = "done"
    /\ \E i, j \in 1..Len(aggregated) :
          /\ aggregated[i].AvgInstancesPerHour.n > 0
          /\ aggregated[i].CurrentCount = 0 /\ aggregated[i].EphemeralCount = 1
          /\ aggregated[j].AvgInstancesPerHour = FInt(0)
          /\ aggregated[j].CurrentCount = 0 /\ aggregated[j].EphemeralCount = 0

(* C19: for every period string shorter than 7 characters, the empty       *)
(* string included, getDaysInPeriod returns 30, and normalizing with such  *)
(* a period divides each type's total instance-hours by 720.               *)
C19_ShortPeriodIs30Days ==
    /\ (ReturnedFrom({"getDaysInPeriod"}) /\ Len(call.period) < 7) => ret = 30
    /\ (ReturnedFrom({"NormalizeToInstanceHours", "AggregateByType"})
            /\ Len(call.billingPeriod) < 7) =>
          \A t \in DOMAIN ret :
              LET I == { i \in 1..Len(call.records) :
                            call.records[i].ResourceType = t }
              IN  ret[t].n * 720 = TotalHours(call.records, I) * ret[t].d

\* 30 days for "202401", whose six characters end in the month 01
C19_Witness ==
    /\ ReturnedFrom({"getDaysInPeriod"})
    /\ call.period = p_202401
    /\ Len(call.period) < 7
    /\ ret = 30

\* the configuration file of the run cannot be loaded
ConfigFails == LoadConfig(configFile).err # "nil"

(* C20: when loading the configuration fails (file missing or not JSON),   *)
(* the first step of main ends the run with exit code 1 and a message on   *)
(* standard error; nothing has been printed, no billing file has been      *)
(* parsed, no record loaded and no workbook written, also when the billing *)
(* files are there.                                                        *)
C20_ConfigErrorIsFatal ==
    (ConfigFails /\ pc # "start") =>
        /\ pc = "fatal"
        /\ exitCode = 1
        /\ stderr = << Event("fatal", "Error loading config") >>
        /\ stdout = <<>>
        /\ allBillingRecords = <<>>
        /\ aggregated = <<>>
        /\ ~excelFile.written

\* a run with malformed JSON as configuration and the README's billing file
\* on disk has ended in failure
C20_Witness ==
    /\ configFile = BadConfigFile
    /\ billingFiles.aws = AwsReadmeFile
    /\ pc = "fatal"
    /\ exitCode = 1
    /\ stdout = <<>>

\* the averages of a type from the records, from the records in the other
\* order and from the single record are the same float64
SameAverage(t) ==
    /\ ret.ofRecords[t] = ret.ofSingle[t]
    /\ ret.ofReordered[t] = ret.ofSingle[t]

\* every record of the type has whole-number instance-hours
WholeHours(records, t) ==
    \A i \in OfType(records, t) : IsWhole64(records[i].InstanceHours)

(* C14 as stated: for a fixed period, N records of a type normalize to the *)
(* same average as one record holding the sum of their instance-hours, in  *)
(* whatever order the records come and whatever records of other types lie *)
(* between them.                                                           *)
C14_AdditiveInAnyOrder ==
    ReturnedFrom({"NormalizeToInstanceHours reordered"}) =>
        \A t \in DOMAIN ret.ofSingle : SameAverage(t)

(* C14 amended: the same, for the types whose records all have whole-      *)
(* number instance-hours (with a total below 2^53): every float64 sum is   *)
(* then exact.  With fractional hours the float64 sum depends on the order *)
(* of the additions and the averages can differ in the last bit.           *)
C14_AdditiveOnWholeHours ==
    ReturnedFrom({"NormalizeToInstanceHours reordered"}) =>
        \A t \in DOMAIN ret.ofSingle :
            WholeHours(call.records, t) => SameAverage(t)

\* 1 and 744 VM hours of February with a Database record of 0.1 hours
\* between them, against 744, 1 and the Database record last: 745/672
C14_Witness ==
    /\ ReturnedFrom({"NormalizeToInstanceHours reordered"})
    /\ call.billingPeriod = p_2024_02
    /\ call.records = << RecordWith("VM", Float64(1, 1)),
                         RecordWith("Database", Float64(1, 10)),
                         RecordWith("VM", Float64(744, 1)) >>
    /\ call.reordered = << call.records[3], call.records[1], call.records[2] >>
    /\ WholeHours(call.records, "VM")
    /\ ret.ofRecords["VM"] = Div64(Float64(745, 1), 672)
    /\ SameAverage("VM")

\* WriteExcel has returned an error to main
WriteFailed ==
    \E i \in 1..Len(stderr) : stderr[i] = Event("fatal", "Error writing Excel")

(* C21: when writing the spreadsheet fails the run ends with exit code 1:  *)
(* the console table has been printed in full, and neither the line that   *)
(* reports the generated file nor the completion banner is ever printed.   *)
C21_WriteErrorIsFatal ==
    WriteFailed =>
        /\ pc = "fatal"
        /\ exitCode = 1
        /\ ~excelFile.written
        /\ HasEvent(stdout, "table header")
        /\ HasEvent(stdout, "table total")
        /\ stdout[Len(stdout)] = Event("generating", "excel")
        /\ ~HasEvent(stdout, "generated")
        /\ ~HasEvent(stdout, "complete")

\* the README's run has printed its two rows and then failed to save
C21_Witness ==
    /\ WriteFailed
    /\ billingFiles.aws = AwsReadmeFile
    /\ Len(aggregated) = 2
    /\ HasEvent(stdout, "table row")
    /\ pc = "fatal"
    /\ exitCode = 1

RECURSIVE SumInts(_, _)
\* the sum of the integers f[i], i in I
SumInts(f, I) ==
    IF I = {} THEN 0
    ELSE LET i == CHOOSE j \in I : TRUE IN f[i] + SumInts(f, I \ {i})

RECURSIVE SumFloats(_, _)
\* the sum of the float64 values f[i], i in I
SumFloats(f, I) ==
    IF I = {} THEN FInt(0)
    ELSE LET i == CHOOSE j \in I : TRUE IN FAdd(f[i], SumFloats(f, I \ {i}))

(* C22: PrintSummaryTable prints the header, one line for each row in the  *)
(* order of the rows, with the row's own fields, and then one TOTAL line   *)
(* whose current count, ephemeral count and synthetic units are the sums   *)
(* of those fields over the rows and whose average is the "%.2f" of the    *)
(* sum of the rows' averages; with no rows the TOTAL line shows 0, 0,      *)
(* 0.00 and 0.                                                             *)
C22_TotalLineSumsRows ==
    ReturnedFrom({"PrintSummaryTable"}) =>
        LET assets == call.assets
            n      == Len(assets)
            total  == ret[n + 2].arg
        IN  /\ Len(ret) = n + 2
            /\ ret[1].ev = "table header"
            /\ \A i \in 1..n :
                  /\ ret[i + 1].ev = "table row"
                  /\ ret[i + 1].arg.AssetType = assets[i].AssetType
                  /\ ret[i + 1].arg.CurrentCount = assets[i].CurrentCount
                  /\ ret[i + 1].arg.EphemeralCount = assets[i].EphemeralCount
                  /\ ret[i + 1].arg.AvgInstancesPerHour =
                         Sprintf2f(assets[i].AvgInstancesPerHour)
                  /\ ret[i + 1].arg.SyntheticUnits = assets[i].SyntheticUnits
            /\ ret[n + 2].ev = "table total"
            /\ total.AssetType = "TOTAL"
            /\ total.CurrentCount =
                   SumInts([i \in 1..n |-> assets[i].CurrentCount], 1..n)
            /\ total.EphemeralCount =
                   SumInts([i \in 1..n |-> assets[i].EphemeralCount], 1..n)
            /\ total.AvgInstancesPerHour =
                   Sprintf2f(SumFloats([i \in 1..n |-> assets[i].AvgInstancesPerHour],
                                       1..n))
            /\ total.SyntheticUnits =
                   SumInts([i \in 1..n |-> assets[i].SyntheticUnits], 1..n)
            /\ n = 0 =>
                  /\ total.CurrentCount = 0 /\ total.EphemeralCount = 0
                  /\ total.AvgInstancesPerHour.hundredths = 0
                  /\ total.SyntheticUnits = 0

\* three rows, the second without ephemeral use; the averages 0.004, 0 and
\* 0.004 print as 0.00 each and their sum 0.008 prints as 0.01 in the TOTAL
\* line: the printed total is the rounded sum, not the sum of the rounded
C22_Witness ==
    /\ ReturnedFrom({"PrintSummaryTable"})
    /\ call.assets = << AggregatedOutput("Function", 1, 1, Rat(1, 250), 0),
                        AggregatedOutput("Database", 3, 0, FInt(0), 0),
                        AggregatedOutput("Container", 0, 1, Rat(1, 250), 0) >>
    /\ Len(ret) = 5
    /\ ret[2].arg.AssetType = "Function" /\ ret[4].arg.AssetType = "Container"
    /\ ret[2].arg.AvgInstancesPerHour.hundredths = 0
    /\ ret[4].arg.AvgInstancesPerHour.hundredths = 0
    /\ ret[5].arg.CurrentCount = 4
    /\ ret[5].arg.EphemeralCount = 2
    /\ ret[5].arg.AvgInstancesPerHour.hundredths = 1
    /\ ret[5].arg.SyntheticUnits = 0

\* the sheet's cell at column c and row r holds the value v
HoldsValue(cells, c, r, v) ==
    /\ <<c, r>> \in DOMAIN cells
    /\ DOMAIN cells[<<c, r>>] = {"value"}
    /\ cells[<<c, r>>].value = v

(* C23: for n >= 1 rows the file WriteExcel saves has cells in the columns *)
(* A..E and the rows 1..n+2 only: the five headers in row 1, the i-th row  *)
(* in sheet row i+1 (type, current count, ephemeral count, the average as  *)
(* "%.2f" text, score), and in row n+2 "TOTAL" and, in each of B..E, the   *)
(* formula SUM over rows 2..n+1 of that column.                            *)
C23_SheetLayout ==
    (ReturnedFrom({"WriteExcel"}) /\ ret.err = "nil" /\ Len(call.assets) >= 1) =>
        LET assets == call.assets
            n      == Len(assets)
            cells  == ret.file.cells
        IN  /\ ret.file.written
            /\ DOMAIN cells = {"A", "B", "C", "D", "E"} \X (1..(n + 2))
            /\ HoldsValue(cells, "A", 1, "Asset Type")
            /\ HoldsValue(cells, "B", 1, "Current Count")
            /\ HoldsValue(cells, "C", 1, "Ephemeral Count")
            /\ HoldsValue(cells, "D", 1, "Avg Instances/Hr")
            /\ HoldsValue(cells, "E", 1, "Synthetic Units")
            /\ \A i \in 1..n :
                  /\ HoldsValue(cells, "A", i + 1, assets[i].AssetType)
                  /\ HoldsValue(cells, "B", i + 1, assets[i].CurrentCount)
                  /\ HoldsValue(cells, "C", i + 1, assets[i].EphemeralCount)
                  /\ HoldsValue(cells, "D", i + 1,
                                Sprintf2f(assets[i].AvgInstancesPerHour))
                  /\ HoldsValue(cells, "E", i + 1, assets[i].SyntheticUnits)
            /\ HoldsValue(cells, "A", n + 2, "TOTAL")
            /\ \A c \in {"B", "C", "D", "E"} :
                  cells[<<c, n + 2>>] =
                      [formula |-> [fn |-> "SUM", col |-> c, from |-> 2, to |-> n + 1]]

\* a sheet of two rows: the second in sheet row 3, the totals in row 4 with
\* SUM(D2:D3) over the two text cells of column D
C23_Witness ==
    /\ ReturnedFrom({"WriteExcel"}) /\ ret.err = "nil"
    /\ call.assets = << AggregatedOutput("VM", 2, 1, Rat(476, 100), 24),
                        AggregatedOutput("Other", 0, 1, Rat(1, 8), 1) >>
    /\ ret.file.cells[<<"A", 3>>].value = "Other"
    /\ ret.file.cells[<<"D", 2>>].value.hundredths = 476
    /\ ret.file.cells[<<"D", 3>>].value.hundredths = 12
    /\ ret.file.cells[<<"D", 4>>].formula.to = 3
    /\ <<"A", 5>> \notin DOMAIN ret.file.cells

(* C24: AggregateForOutput returns as many rows as it is given, the i-th   *)
(* from the i-th: same type, current count = deployed count, same average  *)
(* and score, and ephemeral count 1 when the row's flag is set and 0 when  *)
(* it is not, whatever the counts and the average are.                     *)
C24_RowsOneToOne ==
    ReturnedFrom({"AggregateForOutput"}) =>
        /\ Len(ret) = Len(call.enriched)
        /\ \A i \in 1..Len(ret) :
              LET e == call.enriched[i]
              IN  /\ ret[i].AssetType = e.AssetType
                  /\ ret[i].CurrentCount = e.CurrentlyDeployed
                  /\ ret[i].AvgInstancesPerHour = e.AverageInstancesPerHr
                  /\ ret[i].SyntheticUnits = e.CalculatedUnits
                  /\ ret[i].EphemeralCount \in {0, 1}
                  /\ ret[i].EphemeralCount = 1 <=> e.HasEphemeralUsage

\* two different rows keep their places: a flagged row with two deployed
\* assets first, an unflagged row with a positive average second
C24_Witness ==
    /\ ReturnedFrom({"AggregateForOutput"})
    /\ Len(call.enriched) = 2
    /\ call.enriched[1].AssetType = "VM" /\ call.enriched[2].AssetType = "Database"
    /\ call.enriched[1].HasEphemeralUsage /\ call.enriched[1].CurrentlyDeployed = 2
    /\ ~call.enriched[2].HasEphemeralUsage
    /\ call.enriched[2].AverageInstancesPerHr = Rat(3, 2)
    /\ ret[1].AssetType = "VM" /\ ret[1].EphemeralCount = 1 /\ ret[1].CurrentCount = 2
    /\ ret[2].AssetType = "Database" /\ ret[2].EphemeralCount = 0

\* the number of inventory assets of a type
Deployed(assets, t) == Cardinality({ j \in 1..Len(assets) : assets[j].Type = t })

(* C25: in every row EnrichAssets returns, the average is the map's value  *)
(* for the row's type (0 when the map has none), the current count is the  *)
(* number of inventory assets of that type, and the score is               *)
(* ConvertToSyntheticUnits of the row's own type and average under the     *)
(* call's rule table: nothing of another row enters it.                    *)
C25_RowFromOwnTypeOnly ==
    ReturnedFrom({"EnrichAssets"}) =>
        \A i \in 1..Len(ret) :
            LET t == ret[i].AssetType
            IN  /\ ret[i].AverageInstancesPerHr =
                      (IF t \in DOMAIN call.avgInstancesByType
                       THEN call.avgInstancesByType[t] ELSE FInt(0))
                /\ ret[i].CurrentlyDeployed = Deployed(call.assets, t)
                /\ ret[i].CalculatedUnits =
                      ConvertToSyntheticUnits(t, ret[i].AverageInstancesPerHr,
                                              call.rules)

\* two VMs in the inventory with an average of 1.5 (score 8 at 5 units),
\* next to a Database row with an average of -0.5 (score -3)
C25_Witness ==
    /\ ReturnedFrom({"EnrichAssets"})
    /\ call.rules = RulesDefault
    /\ \E i, j \in 1..Len(ret) :
          /\ ret[i].AssetType = "VM" /\ ret[i].CurrentlyDeployed = 2
          /\ ret[i].AverageInstancesPerHr = Rat(3, 2) /\ ret[i].CalculatedUnits = 8
          /\ ret[j].AssetType = "Database" /\ ret[j].CurrentlyDeployed = 0
          /\ ret[j].AverageInstancesPerHr = Rat(-1, 2) /\ ret[j].CalculatedUnits = -3

\* the mapping function ParseBillingFile's parser for the provider applies
MapServiceToType(provider, service) ==
    IF provider = "aws" THEN mapAWSServiceToType(service)
    ELSE IF provider = "azure" THEN mapAzureServiceToType(service)
    ELSE mapGCPServiceToType(service)

CheckOrder == << "VM", "Database", "Function", "Container", "Storage" >>

\* the first type in the check order one of whose keywords occurs in the
\* service name, case ignored; Other when there is none
FirstInCheckOrder(provider, service) ==
    LET kws  == ProviderKeywords(provider)
        hits == { i \in 1..Len(CheckOrder) :
                    \E kw \in kws[CheckOrder[i]] : MatchesFold(service, kw) }
    IN  IF hits = {} THEN "Other"
        ELSE CheckOrder[CHOOSE i \in hits : \A j \in hits : i <= j]

\* the types whose keywords occur in the service name
TypesMatched(provider, service) ==
    { t \in DOMAIN ProviderKeywords(provider) :
        \E kw \in ProviderKeywords(provider)[t] : MatchesFold(service, kw) }

(* C27: each mapping function returns the first type, in the order VM,     *)
(* Database, Function, Container, Storage, one of whose keywords occurs in *)
(* the service name, wherever in the name the keywords stand.              *)
C27_FirstKeywordInCheckOrder ==
    /\ ReturnedFrom({"mapAWSServiceToType"}) =>
          ret = FirstInCheckOrder("aws", call.service)
    /\ ReturnedFrom({"mapAzureServiceToType"}) =>
          ret = FirstInCheckOrder("azure", call.service)
    /\ ReturnedFrom({"mapGCPServiceToType"}) =>
          ret = FirstInCheckOrder("gcp", call.service)

\* "DevMachine SQL Storage" has "vm" inside "DevMachine", "sql" and
\* "storage": Azure maps it to VM
C27_Witness ==
    /\ ReturnedFrom({"mapAzureServiceToType"})
    /\ call.service = sv_DevMachine_Storage
    /\ TypesMatched("azure", call.service) = {"VM", "Database", "Storage"}
    /\ ret = "VM"

\* main has got to PrintSummaryTable or beyond
Reporting == pc \in {"print", "excel", "examples", "done"} \/ WriteFailed

(* C28: whenever main gets to the console table and the spreadsheet, at    *)
(* least one billing record has been loaded, the normalized map has at     *)
(* least one type and there is at least one report row; the table printed  *)
(* has a row line, and a spreadsheet written has its totals row.           *)
C28_ReportIsNeverEmpty ==
    Reporting =>
        /\ Len(allBillingRecords) >= 1
        /\ DOMAIN avgInstancesByType # {}
        /\ Len(enrichedAssets) >= 1
        /\ Len(aggregated) >= 1
        /\ HasEvent(stdout, "table header") => HasEvent(stdout, "table row")
        /\ excelFile.written =>
              /\ <<"A", Len(aggregated) + 2>> \in DOMAIN excelFile.cells
              /\ excelFile.cells[<<"A", Len(aggregated) + 2>>] = [value |-> "TOTAL"]

\* a finished run on a single record of 0 instance-hours: one row of
\* average 0, and a totals row in sheet row 3
C28_Witness ==
    /\ pc = "done"
    /\ Len(allBillingRecords) = 1
    /\ allBillingRecords[1].InstanceHours = FInt(0)
    /\ Len(aggregated) = 1
    /\ excelFile.written
    /\ excelFile.cells[<<"A", 3>>] = [value |-> "TOTAL"]

(* C29: for every type of the inventory that is no key of the normalized   *)
(* map, EnrichAssets returns one row: average 0, ephemeral flag false,     *)
(* current count the number of inventory assets of the type, score 0,      *)
(* under every rule table (with or without a rule for the type, with a     *)
(* negative or zero multiplier).                                           *)
C29_InventoryOnlyType ==
    ReturnedFrom({"EnrichAssets"}) =>
        \A t \in InventoryTypes(call.assets) \ DOMAIN call.avgInstancesByType :
            /\ Cardinality({ i \in 1..Len(ret) : ret[i].AssetType = t }) = 1
            /\ \A i \in 1..Len(ret) :
                  ret[i].AssetType = t =>
                      /\ ret[i].AverageInstancesPerHr = FInt(0)
                      /\ ~ret[i].HasEphemeralUsage
                      /\ ret[i].CurrentlyDeployed = Deployed(call.assets, t)
                      /\ ret[i].CurrentlyDeployed >= 1
                      /\ ret[i].CalculatedUnits = 0

\* two VMs in the inventory, a map with Database only, the table with the
\* multiplier -2 for VM: the VM row has count 2, average 0 and score 0
C29_Witness ==
    /\ ReturnedFrom({"EnrichAssets"})
    /\ call.rules = RulesSigned
    /\ InventoryTypes(call.assets) = {"VM"}
    /\ DOMAIN call.avgInstancesByType = {"Database"}
    /\ \E i \in 1..Len(ret) :
          /\ ret[i].AssetType = "VM"
          /\ ret[i].CurrentlyDeployed = 2
          /\ ret[i].AverageInstancesPerHr = FInt(0)
          /\ ~ret[i].HasEphemeralUsage
          /\ ret[i].CalculatedUnits = 0

\* the two-character strings "01" .. "12"
MonthNumerals ==
    { <<"0", d>> : d \in {"1","2","3","4","5","6","7","8","9"} }
        \cup { <<"1","0">>, <<"1","1">>, <<"1","2">> }

(* C30: for every period of 7 characters or more whose characters 6 and 7  *)
(* are not "01" .. "12", getDaysInPeriod returns 30; and a period of 7     *)
(* characters or more gets the days its first 7 characters get: what       *)
(* follows them is not looked at.                                          *)
C30_UnknownMonthIs30Days ==
    /\ (ReturnedFrom({"getDaysInPeriod"}) /\ Len(call.period) >= 7
            /\ SubSeq(call.period, 6, 7) \notin MonthNumerals) =>
          ret = 30
    /\ ReturnedFrom({"getDaysInPeriod of prefix"}) =>
          /\ ret.ofPeriod = ret.ofPrefix
          /\ SubSeq(call.period, 6, 7) \notin MonthNumerals => ret.ofPeriod = 30

\* "2024-13-01": 30 days, although it ends in "01"
C30_Witness ==
    /\ ReturnedFrom({"getDaysInPeriod of prefix"})
    /\ call.period = p_2024_13_01
    /\ call.prefix = p_2024_13
    /\ ret.ofPeriod = 30 /\ ret.ofPrefix = 30

===========================================================================
